---- MODULE Spec2Model ----
(***************************************************************************)
(* Model of the clearance / creepage checker of the EMC auditor plugin     *)
(* (src/clearance_creepage.py): the spatial grid index, the geometry       *)
(* primitives, the clearance engine, the surface-path finders and the      *)
(* standards interpolation tables.                                         *)
(*                                                                         *)
(* Units.  Board coordinates are integers (pcbnew internal units); the     *)
(* model scales them so that a grid cell is a few units wide.  Required    *)
(* distances are exact rationals [n, d] counted in hundredths of a         *)
(* millimetre (0.13 mm is 13/1); the code's floating-point rounding is not *)
(* modelled.  Euclidean lengths are compared through their squares, or     *)
(* through a fixed-point square root where lengths are added.              *)
(***************************************************************************)
EXTENDS Integers, Sequences, FiniteSets, TLC

VARIABLES
    config,                 \* self.config: the [clearance_creepage] section
    standard_params,        \* self.standard_params
    isolation_requirements, \* self.isolation_requirements
    input,                  \* the arguments the next operation is invoked with
    call,                   \* the operation last invoked, with its arguments
    ret,                    \* what that operation returned
    spatial_index,          \* the ObstacleSpatialIndex last constructed
    visibility_graph,       \* the (vertices, graph) pair last built
    creepage_stats,         \* self.creepage_stats
    board,                  \* self.board: the copper items of the board
    domain_map,             \* self.domain_map: net name -> domain record
    violation_count,        \* self.violation_count
    clearance_violations,   \* self.clearance_violations
    creepage_violations,    \* self.creepage_violations
    markers                 \* the violation groups created and drawn so far

cfgVars == <<config, standard_params, isolation_requirements>>
opVars == <<input, call, ret>>
pathVars == <<spatial_index, visibility_graph>>
boardVars == <<board, domain_map>>
countVars == <<violation_count, clearance_violations, creepage_violations, markers>>
vars == <<config, standard_params, isolation_requirements, input, call, ret,
          spatial_index, visibility_graph, creepage_stats, board, domain_map,
          violation_count, clearance_violations, creepage_violations, markers>>

NoCall == [op |-> "none"]
NoRet == [kind |-> "none"]
None == "None"
NoIndex == [kind |-> "none"]
NoGraph == [kind |-> "none"]
NoBoard == [pads |-> <<>>, tracks |-> <<>>, zones |-> <<>>]
\* __init__: no violation counted, no marker drawn.
NoViolations ==
    /\ violation_count = 0
    /\ clearance_violations = 0
    /\ creepage_violations = 0
    /\ markers = <<>>

NoStats ==
    [pairs_checked |-> 0, layers_skipped_obstacles |-> <<>>,
     layers_calculated |-> <<>>, layers_no_path |-> <<>>]

(***************************************************************************)
(* Exact rational arithmetic for the required distances.                   *)
(***************************************************************************)
Abs(x) == IF x < 0 THEN 0 - x ELSE x

Min2(a, b) == IF a <= b THEN a ELSE b

Max2(a, b) == IF a >= b THEN a ELSE b

RECURSIVE GCD(_, _)
GCD(a, b) == IF b = 0 THEN a ELSE GCD(b, a % b)

Rat(n, d) ==
    LET g == GCD(Abs(n), d)
    IN  IF n = 0 THEN [n |-> 0, d |-> 1] ELSE [n |-> n \div g, d |-> d \div g]

RatInt(k) == [n |-> k, d |-> 1]

RatMul(a, b) == Rat(a.n * b.n, a.d * b.d)

RatLe(a, b) == a.n * b.d <= b.n * a.d

RatLt(a, b) == a.n * b.d < b.n * a.d

(***************************************************************************)
(* Character strings whose contents the code inspects (substring tests)    *)
(* are sequences of one-character strings.                                 *)
(***************************************************************************)
IsSubstring(s, t) ==
    \E i \in 0..(Len(t) - Len(s)) : \A k \in 1..Len(s) : t[i + k] = s[k]

(***************************************************************************)
(* dict.get(key, default) on the configuration.                            *)
(***************************************************************************)
CfgGet(cfg, key, default) == IF key \in DOMAIN cfg THEN cfg[key] ELSE default

(***************************************************************************)
(* list.sort(key=lambda x: x[0]): a stable sort by voltage.                *)
(***************************************************************************)
RECURSIVE InsertByVoltage(_, _)
InsertByVoltage(sorted, e) ==
    IF sorted = <<>> THEN <<e>>
    ELSE IF e[1] < sorted[Len(sorted)][1]
         THEN InsertByVoltage(SubSeq(sorted, 1, Len(sorted) - 1), e)
                  \o <<sorted[Len(sorted)]>>
         ELSE Append(sorted, e)

\* A sort that leaves the list as it is.
SortByVoltage_Unsorted(s) == s

RECURSIVE SortByVoltage(_)
SortByVoltage(s) ==
    IF s = <<>> THEN <<>>
    ELSE InsertByVoltage(SortByVoltage(SubSeq(s, 1, Len(s) - 1)), s[Len(s)])

\* The lists of ss joined in order, by halves to keep the nesting shallow.
RECURSIVE Flatten(_)
Flatten(ss) ==
    IF Len(ss) = 0 THEN <<>>
    ELSE IF Len(ss) = 1 THEN ss[1]
    ELSE Flatten(SubSeq(ss, 1, Len(ss) \div 2))
             \o Flatten(SubSeq(ss, (Len(ss) \div 2) + 1, Len(ss)))

(***************************************************************************)
(* The fixed minimum clearance, 0.13 mm, in hundredths of a millimetre.    *)
(***************************************************************************)
MinFabClearance == 13

\* First index i whose bracket [v_i, v_i+1] holds v, 0 when there is none.
RECURSIVE FirstBracket(_, _, _)
FirstBracket(vs, v, i) ==
    IF i > Len(vs) - 1 THEN 0
    ELSE IF vs[i][1] <= v /\ v <= vs[i + 1][1] THEN i
    ELSE FirstBracket(vs, v, i + 1)

\* An interpolation that runs from the high entry down.
LinearInterpolation_Reversed(lo, hi, v) ==
    Rat(hi[2] * (hi[1] - lo[1]) - (v - lo[1]) * (hi[2] - lo[2]), hi[1] - lo[1])

\* d_low + (v - v_low) / (v_high - v_low) * (d_high - d_low)
LinearInterpolation(lo, hi, v) ==
    Rat(lo[2] * (hi[1] - lo[1]) + (v - lo[1]) * (hi[2] - lo[2]), hi[1] - lo[1])

\* The part of both interpolation functions after the sort; zeroValue is
\* what a query voltage <= 0 returns.
InterpolateSorted(vs, v, zeroValue, fallback) ==
    IF v <= 0 THEN zeroValue
    ELSE IF v <= vs[1][1] THEN RatInt(vs[1][2])
    ELSE IF v >= vs[Len(vs)][1] THEN RatInt(vs[Len(vs)][2])
    ELSE LET i == FirstBracket(vs, v, 1)
         IN  IF i = 0 THEN fallback ELSE LinearInterpolation(vs[i], vs[i + 1], v)

ClearanceSortedVoltages(cfg) ==
    SortByVoltage(Flatten(CfgGet(cfg, "iec60664_clearance_table", <<>>)))

_interpolate_clearance_table(cfg, v) ==
    LET all_voltages == Flatten(CfgGet(cfg, "iec60664_clearance_table", <<>>))
    IN  IF all_voltages = <<>> THEN RatInt(MinFabClearance)
        ELSE InterpolateSorted(ClearanceSortedVoltages(cfg), v,
                               RatInt(MinFabClearance), RatInt(MinFabClearance))

(***************************************************************************)
(* _parse_standard_params: the standard parameters, with their defaults.   *)
(***************************************************************************)
_parse_standard_params(cfg) ==
    [standard             |-> CfgGet(cfg, "standard", "IEC60664-1"),
     overvoltage_category |-> CfgGet(cfg, "overvoltage_category", "II"),
     pollution_degree     |-> CfgGet(cfg, "pollution_degree", 2),
     material_group       |-> CfgGet(cfg, "material_group", <<"I", "I">>),
     altitude_m           |-> CfgGet(cfg, "altitude_m", 1000)]

\* str(pollution_degree) for the one-digit degrees 1..4
DigitStr(k) == <<CASE k = 1 -> "1" [] k = 2 -> "2" [] k = 3 -> "3" [] OTHER -> "4">>

\* "material_group in table_material and str(pollution_degree) in table_pollution"
CreepageTableMatches(table, sp) ==
    /\ IsSubstring(sp.material_group, CfgGet(table, "material", <<>>))
    /\ IsSubstring(DigitStr(sp.pollution_degree), CfgGet(table, "pollution", <<>>))

\* Index of the first matching sub-table, 0 when none matches.
RECURSIVE FirstMatchingTable(_, _, _)
FirstMatchingTable(tables, sp, i) ==
    IF i > Len(tables) THEN 0
    ELSE IF CreepageTableMatches(tables[i], sp) THEN i
    ELSE FirstMatchingTable(tables, sp, i + 1)

SelectedCreepageTable(cfg, sp) ==
    FirstMatchingTable(CfgGet(cfg, "iec60664_creepage_table", <<>>), sp, 1)

\* The fallback of both "no table" branches: clearance * 1.5
CreepageFallback(cfg, v) == RatMul(_interpolate_clearance_table(cfg, v), Rat(3, 2))

_interpolate_creepage_table(cfg, sp, v) ==
    LET i == SelectedCreepageTable(cfg, sp)
    IN  IF i = 0 THEN CreepageFallback(cfg, v)
        ELSE LET voltages == CfgGet(cfg["iec60664_creepage_table"][i], "voltages", <<>>)
                 sorted == SortByVoltage(voltages)
             IN  IF voltages = <<>> THEN CreepageFallback(cfg, v)
                 ELSE InterpolateSorted(sorted, v, RatInt(sorted[1][2]),
                                        RatInt(sorted[1][2]))

\* voltages.sort(...) sorts the selected sub-table's list in place: the list is
\* the one held by the configuration.
ConfigAfterCreepageInterpolation(cfg, sp) ==
    LET i == SelectedCreepageTable(cfg, sp)
    IN  IF i = 0 THEN cfg
        ELSE LET table == cfg["iec60664_creepage_table"][i]
             IN  IF CfgGet(table, "voltages", <<>>) = <<>> THEN cfg
                 ELSE [cfg EXCEPT !["iec60664_creepage_table"][i]["voltages"] =
                                      SortByVoltage(table["voltages"])]

(***************************************************************************)
(* Layers.  board.GetLayerName gives each layer id its name; F_Cu and B_Cu *)
(* are the ids of the two outer copper layers.                             *)
(***************************************************************************)

LayerName(layer) ==
    CASE layer = "F_Cu" -> <<"F", ".", "C", "u">>
      [] layer = "B_Cu" -> <<"B", ".", "C", "u">>
      [] layer = "In1_Cu" -> <<"I", "n", "1", ".", "C", "u">>
      [] layer = "In2_Cu" -> <<"I", "n", "2", ".", "C", "u">>
      [] OTHER -> <<"F", ".", "S", "i", "l", "k", "S">>

_is_external_layer(layer) ==
    IF layer = "F_Cu" \/ layer = "B_Cu" THEN TRUE
    ELSE IF IsSubstring(<<"I", "n">>, LayerName(layer))
            /\ IsSubstring(<<".", "C", "u">>, LayerName(layer)) THEN FALSE
    ELSE TRUE

(***************************************************************************)
(* Required clearance and creepage for a pair of domains.                  *)
(***************************************************************************)
\* A match in the listed order only.
RequirementMatches_OneWay(req, domain_a, domain_b) ==
    CfgGet(req, "domain_a", "") = domain_a /\ CfgGet(req, "domain_b", "") = domain_b

\* An isolation requirement names the pair, in either order.
RequirementMatches(req, domain_a, domain_b) ==
    LET req_domain_a == CfgGet(req, "domain_a", "")
        req_domain_b == CfgGet(req, "domain_b", "")
    IN  \/ req_domain_a = domain_a /\ req_domain_b = domain_b
        \/ req_domain_a = domain_b /\ req_domain_b = domain_a

\* Index of the first requirement for the pair, 0 when there is none.
RECURSIVE FirstRequirement(_, _, _, _)
FirstRequirement(reqs, domain_a, domain_b, i) ==
    IF i > Len(reqs) THEN 0
    ELSE IF RequirementMatches(reqs[i], domain_a, domain_b) THEN i
    ELSE FirstRequirement(reqs, domain_a, domain_b, i + 1)

\* voltage_diff < 12.0 selects the functional-spacing branch
FunctionalSpacingLimit == 12

\* {'I': 0.8, 'II': 1.0, 'III': 1.5, 'IV': 2.0}
DefaultOvcFactors ==
    [I |-> Rat(4, 5), II |-> Rat(1, 1), III |-> Rat(3, 2), IV |-> Rat(2, 1)]

OvcFactor(cfg, sp) ==
    CfgGet(CfgGet(cfg, "overvoltage_category_factors", DefaultOvcFactors),
           sp.overvoltage_category, Rat(1, 1))

\* "if reinforced_a or reinforced_b"
AppliesReinforced_OnlyBoth(reinforced_a, reinforced_b) == reinforced_a /\ reinforced_b

AppliesReinforced(reinforced_a, reinforced_b) == reinforced_a \/ reinforced_b

ReinforcedFactor(reinforced_a, reinforced_b) ==
    IF AppliesReinforced(reinforced_a, reinforced_b) THEN Rat(2, 1) ELSE Rat(1, 1)

SafetyFactor(cfg) == CfgGet(cfg, "safety_margin_factor", Rat(6, 5))

\* 1.0 + 0.00025 * (altitude - 2000) above 2000 m
AltitudeFactor(sp) ==
    IF sp.altitude_m > 2000 THEN Rat(4000 + (sp.altitude_m - 2000), 4000) ELSE Rat(1, 1)

InternalLayerFactor(cfg, layer_a, layer_b) ==
    IF layer_a # None /\ layer_b # None
       /\ ~_is_external_layer(layer_a) /\ ~_is_external_layer(layer_b)
    THEN CfgGet(cfg, "internal_layer_clearance_factor", Rat(3, 5))
    ELSE Rat(1, 1)

_lookup_required_clearance(cfg, sp, reqs, domain_a, domain_b, voltage_a, voltage_b, reinforced_a, reinforced_b, layer_a, layer_b) ==
    LET i == FirstRequirement(reqs, domain_a, domain_b, 1)
        voltage_diff == Abs(voltage_a - voltage_b)
        base == _interpolate_clearance_table(cfg, voltage_diff)
        scaled == IF voltage_diff < FunctionalSpacingLimit THEN base
                  ELSE RatMul(base, OvcFactor(cfg, sp))
    IN  IF i # 0
        THEN [mm |-> CfgGet(reqs[i], "min_clearance_mm", RatInt(0)),
              isolation_type |-> CfgGet(reqs[i], "isolation_type", "basic")]
        ELSE [mm |-> RatMul(RatMul(RatMul(RatMul(scaled,
                         ReinforcedFactor(reinforced_a, reinforced_b)),
                         SafetyFactor(cfg)), AltitudeFactor(sp)),
                         InternalLayerFactor(cfg, layer_a, layer_b)),
              isolation_type |-> IF reinforced_a \/ reinforced_b
                                 THEN "reinforced" ELSE "basic"]

_lookup_required_creepage(cfg, sp, reqs, domain_a, domain_b, voltage_a, voltage_b, reinforced_a, reinforced_b) ==
    LET i == FirstRequirement(reqs, domain_a, domain_b, 1)
        voltage_diff == Abs(voltage_a - voltage_b)
        base == IF voltage_diff < FunctionalSpacingLimit
                THEN _interpolate_clearance_table(cfg, voltage_diff)
                ELSE _interpolate_creepage_table(cfg, sp, voltage_diff)
    IN  IF i # 0 THEN CfgGet(reqs[i], "min_creepage_mm", RatInt(0))
        ELSE RatMul(RatMul(base, ReinforcedFactor(reinforced_a, reinforced_b)),
                    SafetyFactor(cfg))

\* The creepage table is interpolated (and its list sorted in place) only on
\* the table branch at 12 V or more.
ConfigAfterCreepageLookup(cfg, sp, reqs, domain_a, domain_b, voltage_a, voltage_b) ==
    IF FirstRequirement(reqs, domain_a, domain_b, 1) = 0
       /\ Abs(voltage_a - voltage_b) >= FunctionalSpacingLimit
    THEN ConfigAfterCreepageInterpolation(cfg, sp)
    ELSE cfg

LookupRequiredClearance ==
    /\ "layer_a" \in DOMAIN input
    /\ call' = [op |-> "_lookup_required_clearance"] @@ input
    /\ ret' = _lookup_required_clearance(config, standard_params,
                   isolation_requirements, input.domain_a, input.domain_b,
                   input.voltage_a, input.voltage_b,
                   input.reinforced_a, input.reinforced_b, input.layer_a, input.layer_b)
    /\ UNCHANGED <<cfgVars, input, pathVars, creepage_stats, boardVars, countVars>>

LookupRequiredCreepage ==
    /\ "reinforced_a" \in DOMAIN input
    /\ call' = [op |-> "_lookup_required_creepage"] @@ input
    /\ ret' = [mm |-> _lookup_required_creepage(config, standard_params,
                          isolation_requirements, input.domain_a, input.domain_b,
                          input.voltage_a, input.voltage_b,
                          input.reinforced_a, input.reinforced_b)]
    /\ config' = ConfigAfterCreepageLookup(config, standard_params,
                      isolation_requirements, input.domain_a, input.domain_b,
                      input.voltage_a, input.voltage_b)
    /\ UNCHANGED <<standard_params, isolation_requirements, input, pathVars, creepage_stats, boardVars, countVars>>

(***************************************************************************)
(* Operations on the interpolation tables.                                 *)
(***************************************************************************)
MaxQueryVoltage == 6

ScenarioVoltages == {100, 200}

QueryVoltages == (0..MaxQueryVoltage) \cup ScenarioVoltages

InterpolateClearance ==
    /\ "voltage_rms" \in DOMAIN input
    /\ call' = [op |-> "_interpolate_clearance_table", voltage_rms |-> input.voltage_rms]
    /\ ret' = [value |-> _interpolate_clearance_table(config, input.voltage_rms)]
    /\ UNCHANGED <<cfgVars, input, pathVars, creepage_stats, boardVars, countVars>>

InterpolateCreepage ==
    /\ "voltage_rms" \in DOMAIN input
    /\ call' = [op |-> "_interpolate_creepage_table", voltage_rms |-> input.voltage_rms]
    /\ ret' = [value |-> _interpolate_creepage_table(config, standard_params,
                                                     input.voltage_rms)]
    /\ config' = ConfigAfterCreepageInterpolation(config, standard_params)
    /\ UNCHANGED <<standard_params, isolation_requirements, input, pathVars, creepage_stats, boardVars, countVars>>

(***************************************************************************)
(* Configurations: tables of up to three entries in any order, split over  *)
(* one or two clearance sections, and creepage sub-tables for several      *)
(* material groups and pollution degrees in any order.                     *)
(***************************************************************************)
TableVoltages == {1, 3, 5}

TableDistances == {5, 20}

TableEntries == TableVoltages \X TableDistances

DistinctVoltages(t) == \A i, j \in 1..Len(t) : i # j => t[i][1] # t[j][1]

SmallTables ==
    {t \in UNION {[1..k -> TableEntries] : k \in 0..Cardinality(TableVoltages)} :
        DistinctVoltages(t)}

\* The table of the documented scenario: (0 V, 0.5 mm), (50 V, 0.6 mm), (150 V, 1.0 mm)
ScenarioTable == <<<<0, 50>>, <<50, 60>>, <<150, 100>>>>

ScenarioTableShuffled == <<<<150, 100>>, <<0, 50>>, <<50, 60>>>>

Tables == SmallTables \cup {ScenarioTable, ScenarioTableShuffled}

OtherTable == <<<<3, 90>>, <<1, 70>>>>

ClearanceLayouts(t) ==
    {<<t>>} \cup {<<SubSeq(t, 1, k), SubSeq(t, k + 1, Len(t))>> : k \in 1..(Len(t) - 1)}

SubTable(material, pollution, voltages) ==
    [material |-> material, pollution |-> pollution, voltages |-> voltages]

SubTables(t) ==
    {SubTable(<<"I", "I">>, <<"2">>, t),
     SubTable(<<"I", "I", "I", "a">>, <<"2">>, OtherTable),
     SubTable(<<"I", "I">>, <<"3">>, OtherTable)}

CreepageLayouts(t) == UNION {[1..k -> SubTables(t)] : k \in 0..2}

MaterialGroups == {<<"I">>, <<"I", "I">>, <<"I", "I", "I", "a">>}

\* Either the clearance sections vary (with one creepage sub-table), or the
\* creepage sub-tables and the material group do (with one clearance section).
TableConfigs ==
    UNION {{[iec60664_clearance_table |-> c,
             iec60664_creepage_table |-> <<SubTable(<<"I", "I">>, <<"2">>, t)>>,
             material_group |-> <<"I", "I">>] : c \in ClearanceLayouts(t)}
           \cup
           {[iec60664_clearance_table |-> <<t>>, iec60664_creepage_table |-> p,
             material_group |-> m] :
                p \in CreepageLayouts(t), m \in MaterialGroups} : t \in Tables}

InitTable ==
    /\ config \in TableConfigs
    /\ standard_params = _parse_standard_params(config)
    /\ isolation_requirements = CfgGet(config, "isolation_requirements", <<>>)
    /\ input \in {[voltage_rms |-> v] : v \in QueryVoltages}
    /\ call = NoCall
    /\ ret = NoRet
    /\ spatial_index = NoIndex
    /\ visibility_graph = NoGraph
    /\ creepage_stats = NoStats
    /\ NoViolations
    /\ board = NoBoard
    /\ domain_map = <<>>

NextTable == InterpolateClearance \/ InterpolateCreepage

SpecTable == InitTable /\ [][NextTable]_vars

(***************************************************************************)
(* Properties of the interpolation tables.                                 *)
(***************************************************************************)
Range(s) == {s[i] : i \in 1..Len(s)}

\* Entries ascending in voltage, distances non-decreasing, as listed.
WellFormedTable(t) ==
    /\ t # <<>>
    /\ \A i \in 1..(Len(t) - 1) : t[i][1] < t[i + 1][1] /\ t[i][2] <= t[i + 1][2]

\* The table a call interpolates over, as the configuration lists it:
\* all clearance sections in order, or the selected creepage sub-table.
ClearanceEntries == Flatten(CfgGet(config, "iec60664_clearance_table", <<>>))

CreepageEntries ==
    LET i == SelectedCreepageTable(config, standard_params)
    IN  IF i = 0 THEN <<>>
        ELSE CfgGet(config["iec60664_creepage_table"][i], "voltages", <<>>)

IsClearanceCall == call.op = "_interpolate_clearance_table"

IsCreepageCall == call.op = "_interpolate_creepage_table"

ClampedAtExtremes(t, v, r) ==
    /\ v <= t[1][1] => r = RatInt(t[1][2])
    /\ v >= t[Len(t)][1] => r = RatInt(t[Len(t)][2])

LowestVoltage(t) == CHOOSE v \in {e[1] : e \in Range(t)} : \A e \in Range(t) : v <= e[1]

HighestVoltage(t) == CHOOSE v \in {e[1] : e \in Range(t)} : \A e \in Range(t) : v >= e[1]

\* lo and hi are the entries of t, adjacent in voltage, that bracket v
Brackets(t, lo, hi, v) ==
    /\ lo[1] < hi[1]
    /\ lo[1] <= v /\ v <= hi[1]
    /\ \A e \in Range(t) : ~(lo[1] < e[1] /\ e[1] < hi[1])

\* r = d_low + (v - v_low) / (v_high - v_low) * (d_high - d_low)
IsLinearBetween(lo, hi, v, r) ==
    r.n * (hi[1] - lo[1]) = r.d * (lo[2] * (hi[1] - lo[1]) + (v - lo[1]) * (hi[2] - lo[2]))

InterpolatesBetweenBrackets(t, v, r) ==
    (t # <<>> /\ LowestVoltage(t) < v /\ v < HighestVoltage(t)) =>
        \A lo, hi \in Range(t) : Brackets(t, lo, hi, v) => IsLinearBetween(lo, hi, v, r)

\* C7: for a query voltage strictly between the lowest and highest table
\* voltages both functions return the linear interpolation between the two
\* entries adjacent in voltage that bracket it, in whatever order the
\* configuration lists the entries (tables of distinct, non-negative voltages).
C7_LinearInterpolationAnyOrder ==
    /\ IsClearanceCall =>
           InterpolatesBetweenBrackets(ClearanceEntries, call.voltage_rms, ret.value)
    /\ IsCreepageCall =>
           InterpolatesBetweenBrackets(CreepageEntries, call.voltage_rms, ret.value)

\* The documented scenario, with the entries listed out of order: 100 V on
\* (0, 0.5), (50, 0.6), (150, 1.0) gives 0.8 mm.
C7_Witness ==
    /\ IsClearanceCall
    /\ ClearanceEntries = ScenarioTableShuffled
    /\ call.voltage_rms = 100
    /\ ret.value = RatInt(80)


(***************************************************************************)
(* Configurations for the required-distance lookups: the scenario tables,  *)
(* optional correction factors and up to MaxRequirements isolation         *)
(* requirements.  A domain's voltage is the one its definition gives.      *)
(***************************************************************************)
MaxRequirements == 2

Domains == {"MAINS", "SELV", "LV"}

DomainVoltage(d) == CASE d = "MAINS" -> 230 [] d = "SELV" -> 5 [] OTHER -> 0

Requirements ==
    {[domain_a |-> "MAINS", domain_b |-> "SELV",
      min_clearance_mm |-> RatInt(300), min_creepage_mm |-> RatInt(600),
      isolation_type |-> "reinforced"],
     [domain_a |-> "SELV", domain_b |-> "MAINS",
      min_clearance_mm |-> RatInt(400), min_creepage_mm |-> RatInt(800)],
     [domain_a |-> "MAINS", domain_b |-> "LV", min_clearance_mm |-> RatInt(100)]}

RequirementLists == UNION {[1..k -> Requirements] : k \in 0..MaxRequirements}

LookupBaseConfig ==
    [iec60664_clearance_table |-> <<ScenarioTableShuffled>>,
     iec60664_creepage_table |->
         <<SubTable(<<"I", "I">>, <<"2">>, <<<<300, 250>>, <<50, 120>>>>)>>]

\* r extended with key k when a value is given (opt is <<>> or <<value>>)
WithKey(r, k, opt) ==
    IF opt = <<>> THEN r ELSE [x \in DOMAIN r \cup {k} |-> IF x = k THEN opt[1] ELSE r[x]]

LookupConfigs ==
    {WithKey(WithKey(WithKey(WithKey(LookupBaseConfig,
         "isolation_requirements", <<reqs>>),
         "overvoltage_category", ovc),
         "safety_margin_factor", safety),
         "altitude_m", alt) :
        reqs \in RequirementLists,
        ovc \in {<<>>, <<"I">>},
        safety \in {<<>>, <<Rat(3, 2)>>},
        alt \in {<<>>, <<3000>>}}

LookupLayers == {<<None, None>>} \cup ({"F_Cu", "In1_Cu"} \X {"F_Cu", "In2_Cu"})

LookupInputs ==
    {[domain_a |-> a, domain_b |-> b,
      voltage_a |-> DomainVoltage(a), voltage_b |-> DomainVoltage(b),
      reinforced_a |-> ra, reinforced_b |-> rb, layer_a |-> l[1], layer_b |-> l[2]] :
        a \in Domains, b \in Domains, ra \in BOOLEAN, rb \in BOOLEAN,
        l \in LookupLayers}

InitLookup ==
    /\ config \in LookupConfigs
    /\ standard_params = _parse_standard_params(config)
    /\ isolation_requirements = CfgGet(config, "isolation_requirements", <<>>)
    /\ input \in {i \in LookupInputs : i.domain_a # i.domain_b}
    /\ call = NoCall
    /\ ret = NoRet
    /\ spatial_index = NoIndex
    /\ visibility_graph = NoGraph
    /\ creepage_stats = NoStats
    /\ NoViolations
    /\ board = NoBoard
    /\ domain_map = <<>>

NextLookup == LookupRequiredClearance \/ LookupRequiredCreepage

SpecLookup == InitLookup /\ [][NextLookup]_vars

(***************************************************************************)
(* Properties of the required-distance lookups.                            *)
(***************************************************************************)
IsClearanceLookup == call.op = "_lookup_required_clearance"

IsCreepageLookup == call.op = "_lookup_required_creepage"

\* Some isolation requirement names the pair of the call, in either order.
NamesPair(req, a, b) ==
    /\ "domain_a" \in DOMAIN req /\ "domain_b" \in DOMAIN req
    /\ {req.domain_a, req.domain_b} = {a, b}

HasOverride ==
    \E i \in 1..Len(isolation_requirements) :
        NamesPair(isolation_requirements[i], call.domain_a, call.domain_b)

\* C8: without an override for the pair, the required clearance and the
\* required creepage with a reinforced flag set on either domain are exactly
\* twice the values with both flags clear, all other inputs equal.
C8_ReinforcedExactlyDoubles ==
    /\ (IsClearanceLookup /\ ~HasOverride /\ (call.reinforced_a \/ call.reinforced_b)) =>
           ret.mm = RatMul(Rat(2, 1),
                        _lookup_required_clearance(config, standard_params,
                            isolation_requirements, call.domain_a, call.domain_b,
                            call.voltage_a, call.voltage_b, FALSE, FALSE,
                            call.layer_a, call.layer_b).mm)
    /\ (IsCreepageLookup /\ ~HasOverride /\ (call.reinforced_a \/ call.reinforced_b)) =>
           ret.mm = RatMul(Rat(2, 1),
                        _lookup_required_creepage(config, standard_params,
                            isolation_requirements, call.domain_a, call.domain_b,
                            call.voltage_a, call.voltage_b, FALSE, FALSE))

\* Only domain A reinforced, 225 V between the domains, OVC I, both pads on
\* inner layers: 2 * (1.0 mm * 0.8 * 1.2 * 0.6) = 1.152 mm.
C8_Witness ==
    /\ IsClearanceLookup /\ ~HasOverride
    /\ call.reinforced_a /\ ~call.reinforced_b
    /\ Abs(call.voltage_a - call.voltage_b) = 225
    /\ standard_params.overvoltage_category = "I"
    /\ standard_params.altitude_m = 1000
    /\ "safety_margin_factor" \notin DOMAIN config
    /\ call.layer_a = "In1_Cu" /\ call.layer_b = "In2_Cu"
    /\ ret.mm = Rat(576, 5)
    /\ ret.isolation_type = "reinforced"

\* C9: when an isolation requirement names the pair in either order, both
\* lookups return the configured minimum of the first such requirement in
\* configuration order (0 when the requirement gives none), with no table
\* value and no correction factor in it.
C9_OverrideReturnedVerbatim ==
    \A i \in 1..Len(isolation_requirements) :
        (/\ IsClearanceLookup \/ IsCreepageLookup
         /\ NamesPair(isolation_requirements[i], call.domain_a, call.domain_b)
         /\ \A j \in 1..(i - 1) :
                ~NamesPair(isolation_requirements[j], call.domain_a, call.domain_b))
        => /\ IsClearanceLookup =>
                  ret.mm = CfgGet(isolation_requirements[i], "min_clearance_mm", RatInt(0))
           /\ IsCreepageLookup =>
                  ret.mm = CfgGet(isolation_requirements[i], "min_creepage_mm", RatInt(0))

\* The pair is asked for as (SELV, MAINS), reinforced, at altitude, and the
\* first of two matching requirements lists it as (MAINS, SELV).
C9_Witness ==
    /\ IsClearanceLookup
    /\ call.domain_a = "SELV" /\ call.domain_b = "MAINS"
    /\ call.reinforced_a /\ standard_params.altitude_m = 3000
    /\ Len(isolation_requirements) = 2
    /\ isolation_requirements[1].domain_a = "MAINS"
    /\ isolation_requirements[2].domain_a = "SELV"
    /\ ret.mm = RatInt(300)


(***************************************************************************)
(* Board geometry.  A point is a pcbnew.VECTOR2I, a box a pcbnew.BOX2I     *)
(* (top is the smaller y), a polygon the point list of outline 0 of a      *)
(* SHAPE_POLY_SET.  One model unit is one millimetre.                      *)
(***************************************************************************)
Pt(x, y) == [x |-> x, y |-> y]

FromMM(mm) == mm

Box(l, t, r, b) == [left |-> l, top |-> t, right |-> r, bottom |-> b]

RectPolygon(l, t, r, b) == <<Pt(l, t), Pt(r, t), Pt(r, b), Pt(l, b)>>

PolyBBox(poly) ==
    LET xs == {poly[i].x : i \in DOMAIN poly}
        ys == {poly[i].y : i \in DOMAIN poly}
    IN  Box(CHOOSE v \in xs : \A w \in xs : v <= w,
            CHOOSE v \in ys : \A w \in ys : v <= w,
            CHOOSE v \in xs : \A w \in xs : v >= w,
            CHOOSE v \in ys : \A w \in ys : v >= w)

Obstacle(poly, net, type) ==
    [polygon |-> poly, bbox |-> PolyBBox(poly), net |-> net, type |-> type]

RectObstacle(l, t, r, b) == Obstacle(RectPolygon(l, t, r, b), "GND", "pad")

(***************************************************************************)
(* ObstacleSpatialIndex: the grid maps a cell to the set of indices        *)
(* (1-based here) of the obstacles whose bounding box overlaps the cell.   *)
(***************************************************************************)
\* Division that rounds towards zero.
TruncDiv(a, b) == IF a >= 0 THEN a \div b ELSE 0 - ((0 - a) \div b)

BBoxCells_TowardsZero(bbox, cell_size) ==
    {<<cx, cy>> :
        cx \in TruncDiv(bbox.left, cell_size)..TruncDiv(bbox.right, cell_size),
        cy \in TruncDiv(bbox.top, cell_size)..TruncDiv(bbox.bottom, cell_size)}

BBoxCells(bbox, cell_size) ==
    {<<cx, cy>> : cx \in (bbox.left \div cell_size)..(bbox.right \div cell_size),
                  cy \in (bbox.top \div cell_size)..(bbox.bottom \div cell_size)}

ObstacleSpatialIndex(obstacles, cell_size_mm) ==
    LET cell_size == FromMM(cell_size_mm)
        keys == UNION {BBoxCells(obstacles[i].bbox, cell_size) : i \in DOMAIN obstacles}
    IN  [grid |-> [key \in keys |->
                     {i \in DOMAIN obstacles : key \in BBoxCells(obstacles[i].bbox, cell_size)}],
         obstacles |-> obstacles,
         cell_size |-> cell_size]

LineCellsStep(w) ==
    LET e2 == 2 * w.err
        a == IF e2 > 0 - w.dy
             THEN [w EXCEPT !.err = w.err - w.dy, !.x = w.x + w.sx]
             ELSE w
    IN  IF e2 < w.dx
        THEN [a EXCEPT !.err = a.err + w.dx, !.y = a.y + w.sy]
        ELSE a

\* A walk that tested for the end cell before recording the current one.
RECURSIVE LineCellsWalk_BreakFirst(_, _, _, _)
LineCellsWalk_BreakFirst(w, x2, y2, cells) ==
    IF w.x = x2 /\ w.y = y2 THEN cells
    ELSE LineCellsWalk_BreakFirst(LineCellsStep(w), x2, y2, cells \cup {<<w.x, w.y>>})

RECURSIVE LineCellsWalk(_, _, _, _)
LineCellsWalk(w, x2, y2, cells) ==
    LET seen == cells \cup {<<w.x, w.y>>}
    IN  IF w.x = x2 /\ w.y = y2 THEN seen
        ELSE LineCellsWalk(LineCellsStep(w), x2, y2, seen)

_get_line_cells(index, p1, p2) ==
    LET x1 == p1.x \div index.cell_size
        y1 == p1.y \div index.cell_size
        x2 == p2.x \div index.cell_size
        y2 == p2.y \div index.cell_size
        dx == Abs(x2 - x1)
        dy == Abs(y2 - y1)
    IN  LineCellsWalk([x |-> x1, y |-> y1, err |-> dx - dy, dx |-> dx, dy |-> dy,
                       sx |-> IF x1 < x2 THEN 1 ELSE 0 - 1,
                       sy |-> IF y1 < y2 THEN 1 ELSE 0 - 1],
                      x2, y2, {})

\* Lines 76-85: the end cells and the state of the walk before its loop.
LineCellsStart(index, p1, p2) ==
    LET x1 == p1.x \div index.cell_size
        y1 == p1.y \div index.cell_size
        x2 == p2.x \div index.cell_size
        y2 == p2.y \div index.cell_size
    IN  [x |-> x1, y |-> y1, err |-> Abs(x2 - x1) - Abs(y2 - y1),
         dx |-> Abs(x2 - x1), dy |-> Abs(y2 - y1),
         sx |-> IF x1 < x2 THEN 1 ELSE 0 - 1,
         sy |-> IF y1 < y2 THEN 1 ELSE 0 - 1,
         x2 |-> x2, y2 |-> y2]

\* The while loop run for at most steps iterations after the first: the
\* cells in the order they are added, and whether the loop reached its break.
RECURSIVE LineCellsTrace(_, _, _)
LineCellsTrace(w, visited, steps) ==
    LET seen == Append(visited, <<w.x, w.y>>)
    IN  IF w.x = w.x2 /\ w.y = w.y2 THEN [cells |-> seen, done |-> TRUE]
        ELSE IF steps = 0 THEN [cells |-> seen, done |-> FALSE]
        ELSE LineCellsTrace([LineCellsStep(w) EXCEPT !.x2 = w.x2, !.y2 = w.y2],
                            seen, steps - 1)

\* The indices of the obstacles returned (the code returns the obstacles).
get_obstacles_near_line(index, p1, p2) ==
    UNION {index.grid[cell] : cell \in _get_line_cells(index, p1, p2) \cap DOMAIN index.grid}

GetObstaclesNearLine ==
    /\ "p1" \in DOMAIN input
    /\ spatial_index # NoIndex
    /\ call' = [op |-> "get_obstacles_near_line", p1 |-> input.p1, p2 |-> input.p2]
    /\ ret' = [indices |-> get_obstacles_near_line(spatial_index, input.p1, input.p2)]
    /\ UNCHANGED <<cfgVars, input, pathVars, creepage_stats, boardVars, countVars>>


(***************************************************************************)
(* Spatial index queries: an index built over a short obstacle list, with  *)
(* the cell sizes the path finders use, queried with every segment of a    *)
(* small board.                                                            *)
(***************************************************************************)
MaxCoord == 10

Coords == (0 - 1)..MaxCoord

Points == {Pt(x, y) : x \in Coords, y \in Coords}

GridBoxes ==
    <<RectObstacle(7, 5, 8, 6), RectObstacle(1, 1, 2, 2),
      RectObstacle(4, 4, 6, 6), RectObstacle(0 - 1, 3, 0, 9)>>

GridObstacleLists ==
    {<<>>, <<GridBoxes[1]>>, <<GridBoxes[1], GridBoxes[3]>>, <<GridBoxes[4], GridBoxes[2]>>}

CellSizes == {3, 5}

InitGrid ==
    /\ config = <<>>
    /\ standard_params = _parse_standard_params(config)
    /\ isolation_requirements = <<>>
    /\ input \in {[obstacles |-> o, cell_size_mm |-> c, p1 |-> a, p2 |-> b] :
                    o \in GridObstacleLists, c \in CellSizes, a \in Points, b \in Points}
    /\ call = NoCall
    /\ ret = NoRet
    /\ spatial_index = ObstacleSpatialIndex(input.obstacles, input.cell_size_mm)
    /\ visibility_graph = NoGraph
    /\ creepage_stats = NoStats
    /\ NoViolations
    /\ board = NoBoard
    /\ domain_map = <<>>

NextGrid == GetObstaclesNearLine

SpecGrid == InitGrid /\ [][NextGrid]_vars

\* The cross product (b - a) x (c - a): its sign tells the side of line a-b
\* on which c lies.
Cross(a, b, c) == (b.x - a.x) * (c.y - a.y) - (b.y - a.y) * (c.x - a.x)

BoxCorners(bbox) ==
    {Pt(bbox.left, bbox.top), Pt(bbox.right, bbox.top),
     Pt(bbox.right, bbox.bottom), Pt(bbox.left, bbox.bottom)}

\* Segment p1-p2 contains points of the open rectangle: the projections on
\* both axes overlap the rectangle's open intervals and the corners lie
\* strictly on both sides of the segment's line.
SegmentPassesThroughBox(p1, p2, bbox) ==
    /\ Max2(p1.x, p2.x) > bbox.left /\ Min2(p1.x, p2.x) < bbox.right
    /\ Max2(p1.y, p2.y) > bbox.top /\ Min2(p1.y, p2.y) < bbox.bottom
    /\ \E c \in BoxCorners(bbox) : Cross(p1, p2, c) > 0
    /\ \E c \in BoxCorners(bbox) : Cross(p1, p2, c) < 0

IsNearLineCall == call.op = "get_obstacles_near_line"

\* C1: get_obstacles_near_line(p1, p2) returns every obstacle whose bounding
\* box the segment p1-p2 passes through (no false negatives).
C1_NoFalseNegatives ==
    IsNearLineCall =>
        \A i \in DOMAIN spatial_index.obstacles :
            SegmentPassesThroughBox(call.p1, call.p2, spatial_index.obstacles[i].bbox)
                => i \in ret.indices

\* The documented failure: the walk from cell (0,0) to cell (2,1) visits only
\* (0,0), (1,0), (2,1), while the segment (4,0)-(10,8) runs through the box
\* [7,8]x[5,6] of cell (1,1).
C1_SkippedCell ==
    /\ IsNearLineCall
    /\ spatial_index.cell_size = 5
    /\ call.p1 = Pt(4, 0) /\ call.p2 = Pt(10, 8)
    /\ spatial_index.obstacles = <<GridBoxes[1]>>
    /\ ret.indices = {}


(***************************************************************************)
(* Clearance engine.  A Euclidean length is carried as its exact square, a *)
(* rational [n, d]; float('inf') is [n |-> 1, d |-> 0], which RatLt orders *)
(* above every finite value.                                               *)
(***************************************************************************)
Infinity == [n |-> 1, d |-> 0]

RetNone == [value |-> None]

\* get_distance(p1, p2), squared.
DistSq(p, q) == (p.x - q.x) * (p.x - q.x) + (p.y - q.y) * (p.y - q.y)

\* Distance (squared) from a point to the segment: the projection
\* parameter t = tnum / segment_length_sq is clamped to [0, 1].
\* The distance to the whole line through the segment, without the clamp.
_point_to_segment_distance_Unclamped(point, seg_start, seg_end) ==
    LET dx == seg_end.x - seg_start.x
        dy == seg_end.y - seg_start.y
        cross == (point.x - seg_start.x) * dy - (point.y - seg_start.y) * dx
    IN  IF dx * dx + dy * dy = 0 THEN RatInt(DistSq(point, seg_start))
        ELSE Rat(cross * cross, dx * dx + dy * dy)

_point_to_segment_distance(point, seg_start, seg_end) ==
    LET dx == seg_end.x - seg_start.x
        dy == seg_end.y - seg_start.y
        segment_length_sq == dx * dx + dy * dy
        tnum == (point.x - seg_start.x) * dx + (point.y - seg_start.y) * dy
        cross == (point.x - seg_start.x) * dy - (point.y - seg_start.y) * dx
    IN  IF segment_length_sq = 0 THEN RatInt(DistSq(point, seg_start))
        ELSE IF tnum <= 0 THEN RatInt(DistSq(point, seg_start))
        ELSE IF tnum >= segment_length_sq THEN RatInt(DistSq(point, seg_end))
        ELSE Rat(cross * cross, segment_length_sq)

\* dist < FromMM(0.01), on squares: 10000 * dist^2 < 1.
BelowEarlyExitThreshold(dsq) == 10000 * dsq.n < FromMM(1) * FromMM(1) * dsq.d

\* The scan order of the two loops: each vertex of `from` against each edge
\* of `to`.
VertexEdgePairs(from, to) ==
    [k \in 1..(Len(from) * Len(to)) |->
        LET i == (k - 1) \div Len(to) + 1
            j == ((k - 1) % Len(to)) + 1
        IN  <<from[i], to[j], to[(j % Len(to)) + 1]>>]

RECURSIVE PolygonScan(_, _, _)
PolygonScan(pairs, k, min_distance) ==
    IF k > Len(pairs) THEN min_distance
    ELSE LET dist == _point_to_segment_distance(pairs[k][1], pairs[k][2], pairs[k][3])
         IN  IF RatLt(dist, min_distance)
             THEN IF BelowEarlyExitThreshold(dist) THEN dist
                  ELSE PolygonScan(pairs, k + 1, dist)
             ELSE PolygonScan(pairs, k + 1, min_distance)

\* A polygon is the point list of outline 0; <<>> is a set without outline.
_calculate_polygon_distance(poly_a, poly_b) ==
    IF Len(poly_a) = 0 \/ Len(poly_b) = 0 THEN Infinity
    ELSE PolygonScan(VertexEdgePairs(poly_a, poly_b) \o VertexEdgePairs(poly_b, poly_a),
                     1, Infinity)

\* A rectangular pad: position, size and layer.
Pad(pos, size, layer) == [position |-> pos, size |-> size, layer |-> layer]

_get_pad_polygon(pad, layer) ==
    RectPolygon(pad.position.x - pad.size.x \div 2, pad.position.y - pad.size.y \div 2,
                pad.position.x + pad.size.x \div 2, pad.position.y + pad.size.y \div 2)

Feature(pad, net, voltage, reinforced) ==
    [ftype |-> "pad", pad |-> pad, pos |-> pad.position, net |-> net,
     voltage |-> voltage, reinforced |-> reinforced]

\* sqrt(c) > sqrt(m) + k / 2 for an integer c, a rational m >= 0 and an
\* integer k >= 0, decided on exact integers.
SqrtExceeds(c, m, k) ==
    LET l == 4 * c * m.d - 4 * m.n - k * k * m.d
    IN  l > 0 /\ l * l > 16 * k * k * m.n * m.d

\* approx_edge_distance > min_distance + FromMM(2.0)
FastReject(feature_a, feature_b, min_distance) ==
    LET size_a == feature_a.pad.size
        size_b == feature_b.pad.size
    IN  /\ min_distance # Infinity
        /\ SqrtExceeds(DistSq(feature_a.pos, feature_b.pos), min_distance,
                       Max2(size_a.x, size_a.y) + Max2(size_b.x, size_b.y)
                           + 2 * FromMM(2))

NoClosest ==
    [min_distance |-> Infinity, point1 |-> None, point2 |-> None,
     net_a |-> None, net_b |-> None, layer_a |-> None, layer_b |-> None]

RECURSIVE ClearanceScan(_, _, _, _)
ClearanceScan(features_a, features_b, k, best) ==
    IF k > Len(features_a) * Len(features_b) THEN best
    ELSE LET feature_a == features_a[(k - 1) \div Len(features_b) + 1]
             feature_b == features_b[((k - 1) % Len(features_b)) + 1]
             layer_a == feature_a.pad.layer
             layer_b == feature_b.pad.layer
             edge_distance ==
                 _calculate_polygon_distance(_get_pad_polygon(feature_a.pad, layer_a),
                                             _get_pad_polygon(feature_b.pad, layer_b))
         IN  IF FastReject(feature_a, feature_b, best.min_distance)
             THEN ClearanceScan(features_a, features_b, k + 1, best)
             ELSE IF RatLt(edge_distance, best.min_distance)
             THEN ClearanceScan(features_a, features_b, k + 1,
                      [min_distance |-> edge_distance,
                       point1 |-> feature_a.pos, point2 |-> feature_b.pos,
                       net_a |-> feature_a.net, net_b |-> feature_b.net,
                       layer_a |-> layer_a, layer_b |-> layer_b])
             ELSE ClearanceScan(features_a, features_b, k + 1, best)

\* A version without the two tests for "nothing to compare".
_calculate_clearance_Unguarded(features_a, features_b) ==
    LET Closest(best) ==
            [distance_sq |-> best.min_distance,
             point1 |-> best.point1, point2 |-> best.point2,
             net_a |-> best.net_a, net_b |-> best.net_b,
             layer_a |-> best.layer_a, layer_b |-> best.layer_b]
    IN  Closest(ClearanceScan(features_a, features_b, 1, NoClosest))

_calculate_clearance(features_a, features_b) ==
    IF features_a = <<>> \/ features_b = <<>> THEN RetNone
    ELSE LET best == ClearanceScan(features_a, features_b, 1, NoClosest)
         IN  IF best.min_distance = Infinity THEN RetNone
             ELSE [distance_sq |-> best.min_distance,
                   point1 |-> best.point1, point2 |-> best.point2,
                   net_a |-> best.net_a, net_b |-> best.net_b,
                   layer_a |-> best.layer_a, layer_b |-> best.layer_b]

CalculatePolygonDistance ==
    /\ "poly_a" \in DOMAIN input
    /\ call' = [op |-> "_calculate_polygon_distance",
                poly_a |-> input.poly_a, poly_b |-> input.poly_b]
    /\ ret' = [distance_sq |-> _calculate_polygon_distance(input.poly_a, input.poly_b)]
    /\ UNCHANGED <<cfgVars, input, pathVars, creepage_stats, boardVars, countVars>>

CalculateClearance ==
    /\ "features_a" \in DOMAIN input
    /\ call' = [op |-> "_calculate_clearance",
                features_a |-> input.features_a, features_b |-> input.features_b]
    /\ ret' = _calculate_clearance(input.features_a, input.features_b)
    /\ UNCHANGED <<cfgVars, input, pathVars, creepage_stats, boardVars, countVars>>


(***************************************************************************)
(* Clearance inputs: axis-aligned rectangles that are apart, touch, cross  *)
(* or contain one another, and feature lists of up to MaxFeatures          *)
(* rectangular pads per domain, including pads facing each other on the    *)
(* two sides of the board and large pads that lie diagonally apart.        *)
(***************************************************************************)
MaxFeatures == 2

ClearPolygons ==
    {<<>>,
     RectPolygon(0 - 1, 0 - 5, 1, 5), RectPolygon(0 - 5, 0 - 1, 5, 1),
     RectPolygon(0 - 1, 0 - 1, 1, 1), RectPolygon(0 - 3, 0 - 3, 3, 3),
     RectPolygon(1, 0 - 1, 3, 1), RectPolygon(4, 0 - 1, 6, 1),
     RectPolygon(20, 0, 22, 2)}

PadsA ==
    {Feature(Pad(pos, size, "F_Cu"), "L", 230, FALSE) :
        pos \in {Pt(0, 0), Pt(0, 8)}, size \in {Pt(2, 2), Pt(2, 10)}}
    \cup {Feature(Pad(Pt(0, 0), Pt(10, 10), "F_Cu"), "L", 230, FALSE)}

PadsB ==
    {Feature(Pad(pos, size, IF pos = Pt(0, 0) THEN "B_Cu" ELSE "F_Cu"),
             "5V", 5, FALSE) :
        pos \in {Pt(0, 0), Pt(4, 0), Pt(30, 0)}, size \in {Pt(6, 6), Pt(10, 2)}}
    \cup {Feature(Pad(pos, Pt(10, 10), "F_Cu"), "5V", 5, FALSE) :
            pos \in {Pt(25, 0), Pt(20, 20)}}

FeatureLists(pads) ==
    {f \in UNION {[1..n -> pads] : n \in 0..MaxFeatures} :
        \A i, j \in DOMAIN f : i # j => f[i] # f[j]}

ClearInputs ==
    {[poly_a |-> a, poly_b |-> b] : a \in ClearPolygons, b \in ClearPolygons}
    \cup {[features_a |-> a, features_b |-> b] :
            a \in FeatureLists(PadsA), b \in FeatureLists(PadsB)}

InitClear ==
    /\ config = <<>>
    /\ standard_params = _parse_standard_params(config)
    /\ isolation_requirements = <<>>
    /\ input \in ClearInputs
    /\ call = NoCall
    /\ ret = NoRet
    /\ spatial_index = NoIndex
    /\ visibility_graph = NoGraph
    /\ creepage_stats = NoStats
    /\ NoViolations
    /\ board = NoBoard
    /\ domain_map = <<>>

NextClear == CalculatePolygonDistance \/ CalculateClearance

SpecClear == InitClear /\ [][NextClear]_vars

IsPolygonDistanceCall == call.op = "_calculate_polygon_distance"

IsCalculateClearanceCall == call.op = "_calculate_clearance"

\* Two axis-aligned rectangles share a point exactly when their bounding
\* boxes do.
RectanglesOverlap(poly_a, poly_b) ==
    LET a == PolyBBox(poly_a)
        b == PolyBBox(poly_b)
    IN  /\ a.left <= b.right /\ b.left <= a.right
        /\ a.top <= b.bottom /\ b.top <= a.bottom

\* C5: _calculate_polygon_distance returns 0 whenever the two polygons
\* overlap (identical, one inside the other, or crossing).
C5_OverlapGivesZero ==
    (/\ IsPolygonDistanceCall
     /\ call.poly_a # <<>> /\ call.poly_b # <<>>
     /\ RectanglesOverlap(call.poly_a, call.poly_b))
        => ret.distance_sq = RatInt(0)

\* The documented failure: the 2x10 and the 10x2 rectangle centred on the
\* origin cross, and the vertex-to-edge scan returns 4 mm.
C5_CrossingRectangles ==
    /\ IsPolygonDistanceCall
    /\ call.poly_a = RectPolygon(0 - 1, 0 - 5, 1, 5)
    /\ call.poly_b = RectPolygon(0 - 5, 0 - 1, 5, 1)
    /\ ret.distance_sq = RatInt(16)

MinCenterDistSq(features_a, features_b) ==
    LET ds == {DistSq(features_a[i].pos, features_b[j].pos) :
                 i \in DOMAIN features_a, j \in DOMAIN features_b}
    IN  CHOOSE d \in ds : \A e \in ds : d <= e

\* C4: the distance _calculate_clearance returns is never negative and
\* never exceeds the minimum centre-to-centre distance of the feature pairs.
C4_ClearanceWithinCenterDistance ==
    (IsCalculateClearanceCall /\ "distance_sq" \in DOMAIN ret)
        => /\ RatLe(RatInt(0), ret.distance_sq)
           /\ RatLe(ret.distance_sq,
                    RatInt(MinCenterDistSq(call.features_a, call.features_b)))

\* The documented failure: a 2x2 pad on F.Cu facing a 6x6 pad on B.Cu at the
\* same position; centre distance 0, returned distance 2 mm.
C4_ConcentricPads ==
    /\ IsCalculateClearanceCall
    /\ call.features_a = <<Feature(Pad(Pt(0, 0), Pt(2, 2), "F_Cu"), "L", 230, FALSE)>>
    /\ call.features_b = <<Feature(Pad(Pt(0, 0), Pt(6, 6), "B_Cu"), "5V", 5, FALSE)>>
    /\ ret.distance_sq = RatInt(4)


(***************************************************************************)
(* Line-of-sight tests.                                                    *)
(***************************************************************************)
_line_intersects_bbox(p1, p2, bbox) ==
    ~ (\/ Max2(p1.x, p2.x) < bbox.left
       \/ Min2(p1.x, p2.x) > bbox.right
       \/ Max2(p1.y, p2.y) < bbox.top
       \/ Min2(p1.y, p2.y) > bbox.bottom)

ccw(a, b, c) == (c.y - a.y) * (b.x - a.x) > (b.y - a.y) * (c.x - a.x)

_segments_intersect(p1, p2, p3, p4) ==
    /\ ccw(p1, p3, p4) # ccw(p2, p3, p4)
    /\ ccw(p1, p2, p3) # ccw(p1, p2, p4)

\* Integer division rounding to nearest, as pcbnew's rescale().
RoundDiv(n, d) ==
    LET num == IF d < 0 THEN 0 - n ELSE n
        den == Abs(d)
    IN  IF num >= 0 THEN (2 * num + den) \div (2 * den)
        ELSE 0 - ((2 * (0 - num) + den) \div (2 * den))

\* An edge of the outline toggles the ray-casting parity of point p.
EdgeToggles(p, a, b) ==
    /\ b.y # a.y
    /\ (a.y > p.y) # (b.y > p.y)
    /\ p.x - a.x < RoundDiv((b.x - a.x) * (p.y - a.y), b.y - a.y)

\* SHAPE_POLY_SET.Contains(p): pcbnew's ray casting along the outline, with
\* accuracy 0 (a point on the boundary counts on the left and top sides of
\* a rectangle only).
Contains(polygon, p) ==
    /\ Len(polygon) >= 3
    /\ Cardinality({i \in DOMAIN polygon :
                      EdgeToggles(p, polygon[i], polygon[(i % Len(polygon)) + 1])}) % 2 = 1

_line_intersects_polygon(p1, p2, polygon, bbox) ==
    IF ~ _line_intersects_bbox(p1, p2, bbox) THEN FALSE
    ELSE IF Contains(polygon, p1) \/ Contains(polygon, p2) THEN TRUE
    ELSE \E i \in DOMAIN polygon :
            _segments_intersect(p1, p2, polygon[i], polygon[(i % Len(polygon)) + 1])

_path_crosses_obstacle(point_a, point_b, obstacles) ==
    \E i \in DOMAIN obstacles :
        _line_intersects_polygon(point_a, point_b, obstacles[i].polygon, obstacles[i].bbox)

\* The pre-filtered obstacles are given by their indices in the full list.
_path_crosses_obstacle_fast(point_a, point_b, obstacles, nearby) ==
    \E i \in nearby :
        _line_intersects_polygon(point_a, point_b, obstacles[i].polygon, obstacles[i].bbox)

(***************************************************************************)
(* Lengths that are added up are fixed-point numbers: hundredths of a      *)
(* millimetre, rounded down.                                               *)
(***************************************************************************)
RECURSIVE IsqrtBetween(_, _, _)
IsqrtBetween(n, lo, hi) ==
    IF lo >= hi THEN lo
    ELSE LET mid == (lo + hi + 1) \div 2
         IN  IF mid * mid <= n THEN IsqrtBetween(n, mid, hi)
             ELSE IsqrtBetween(n, lo, mid - 1)

Isqrt(n) == IsqrtBetween(n, 0, 46340)

\* get_distance(p1, p2) in hundredths of a millimetre.
get_distance(p1, p2) == Isqrt(10000 * DistSq(p1, p2))


(***************************************************************************)
(* Sorting.  list.sort() is stable and uses only "<"; Before(a, b) says    *)
(* that a must come ahead of b.  pcbnew orders VECTOR2I values by squared  *)
(* length or lexicographically, depending on its version; the order in     *)
(* force is part of the input.                                             *)
(***************************************************************************)
VectorOrders == {"norm", "lexicographic"}

VecLess(order, a, b) ==
    IF order = "norm" THEN a.x * a.x + a.y * a.y < b.x * b.x + b.y * b.y
    ELSE a.x < b.x \/ (a.x = b.x /\ a.y < b.y)

\* before[i, j] says that s[i] must come ahead of s[j].  The element at
\* position i lands behind those that come ahead of it and behind the
\* earlier ones it does not come ahead of.
RECURSIVE SortRanks(_, _, _)
SortRanks(s, before, i) ==
    IF i > Len(s) THEN <<>>
    ELSE <<1 + Cardinality({j \in DOMAIN s :
                  /\ j # i
                  /\ \/ before[j, i]
                     \/ (~ before[i, j] /\ j < i)})>>
         \o SortRanks(s, before, i + 1)

SortStable(s, before) ==
    LET Place(ranks) == [k \in DOMAIN s |-> s[CHOOSE i \in DOMAIN s : ranks[i] = k]]
    IN  Place(SortRanks(s, before, 1))

Take(s, n) == SubSeq(s, 1, Min2(n, Len(s)))

(***************************************************************************)
(* Key vertices.  The corner at curr, between prev and next, is kept as    *)
(* dot (the scalar product of the two edge vectors) and norm (the product  *)
(* of their squared lengths): cos(angle) = dot / sqrt(norm).               *)
(***************************************************************************)
Corner(polygon, i) ==
    LET n == Len(polygon)
        prev == polygon[((i + n - 2) % n) + 1]
        curr == polygon[i]
        next_pt == polygon[(i % n) + 1]
        v1 == Pt(prev.x - curr.x, prev.y - curr.y)
        v2 == Pt(next_pt.x - curr.x, next_pt.y - curr.y)
    IN  [dot |-> v1.x * v2.x + v1.y * v2.y,
         norm |-> (v1.x * v1.x + v1.y * v1.y) * (v2.x * v2.x + v2.y * v2.y),
         curr |-> curr]

\* abs(angle) > 30 degrees: cos(angle) < sqrt(3) / 2.
SignificantCorner(c) == c.dot <= 0 \/ 4 * c.dot * c.dot < 3 * c.norm

\* abs(angle) of corner a is less than that of corner b.
AngleLess(a, b) == b.dot * Abs(b.dot) * a.norm < a.dot * Abs(a.dot) * b.norm

\* (abs(angle), curr) tuples, compared as Python compares tuples.
CornerLess(order, a, b) ==
    \/ AngleLess(a, b)
    \/ /\ ~ AngleLess(b, a)
       /\ a.curr # b.curr
       /\ VecLess(order, a.curr, b.curr)

_get_key_vertices(polygon, max_vertices_per_polygon, order) ==
    IF Len(polygon) < 3 THEN <<>>
    ELSE LET all == [i \in DOMAIN polygon |-> Corner(polygon, i)]
             corners == SelectSeq(all, SignificantCorner)
             before == [i \in DOMAIN corners, j \in DOMAIN corners |->
                           CornerLess(order, corners[j], corners[i])]
             sorted == SortStable(corners, before)
             top == Take(sorted, max_vertices_per_polygon)
         IN  [i \in DOMAIN top |-> top[i].curr]

(***************************************************************************)
(* Visibility graph and Dijkstra.  Vertex 1 is the start and vertex 2 the  *)
(* goal (0 and 1 in the code).                                             *)
(***************************************************************************)
EveryNth(s, step) == [k \in 1..((Len(s) + step - 1) \div step) |-> s[(k - 1) * step + 1]]

_build_visibility_graph(start, goal, obstacles, index, order) ==
    LET max_total_vertices == 150
        max_vertices_per_obstacle == 3
        Sampled(collected) ==
            IF Len(collected) > max_total_vertices - 2
            THEN EveryNth(collected,
                          Max2(1, Len(collected) \div (max_total_vertices - 2)))
            ELSE collected
        Visible(vertices, i, j) ==
            ~ _path_crosses_obstacle_fast(vertices[i], vertices[j], obstacles,
                    get_obstacles_near_line(index, vertices[i], vertices[j]))
        Linked(vertices, i, j) == i # j /\ Visible(vertices, Min2(i, j), Max2(i, j))
        Edges(vertices, i, ns) ==
            [k \in DOMAIN ns |-> <<ns[k], get_distance(vertices[i], vertices[ns[k]])>>]
        Graph(vertices) ==
            [vertices |-> vertices,
             graph |-> [i \in DOMAIN vertices |->
                          Edges(vertices, i,
                                SelectSeq([j \in DOMAIN vertices |-> j],
                                          LAMBDA j : Linked(vertices, i, j)))]]
    IN  Graph(<<start, goal>>
              \o Take(Sampled(Flatten([i \in DOMAIN obstacles |->
                                         _get_key_vertices(obstacles[i].polygon,
                                                           max_vertices_per_obstacle,
                                                           order)])),
                      max_total_vertices - 2))

\* dict[k] = v
Put(f, k, v) == [x \in DOMAIN f \cup {k} |-> IF x = k THEN v ELSE f[x]]

RECURSIVE DijkstraPath(_, _, _, _)
DijkstraPath(previous, vertices, idx, start_idx) ==
    IF idx \in DOMAIN previous
    THEN DijkstraPath(previous, vertices, previous[idx], start_idx) \o <<vertices[idx]>>
    ELSE <<vertices[start_idx]>>

\* A relaxation that keeps the first distance found for a vertex.
RECURSIVE DijkstraRelax_FirstFound(_, _, _, _, _)
DijkstraRelax_FirstFound(st, edges, k, current_idx, current_dist) ==
    IF k > Len(edges) THEN st
    ELSE LET neighbor_idx == edges[k][1]
             new_dist == current_dist + edges[k][2]
         IN  IF neighbor_idx \in st.visited \/ neighbor_idx \in DOMAIN st.distances
             THEN DijkstraRelax_FirstFound(st, edges, k + 1, current_idx, current_dist)
             ELSE DijkstraRelax_FirstFound(
                      [st EXCEPT !.distances = Put(@, neighbor_idx, new_dist),
                                 !.previous = Put(@, neighbor_idx, current_idx),
                                 !.pq = @ \cup {<<new_dist, neighbor_idx>>}],
                      edges, k + 1, current_idx, current_dist)

\* The loop over the neighbours of the vertex just visited.
RECURSIVE DijkstraRelax(_, _, _, _, _)
DijkstraRelax(st, edges, k, current_idx, current_dist) ==
    IF k > Len(edges) THEN st
    ELSE LET neighbor_idx == edges[k][1]
             new_dist == current_dist + edges[k][2]
         IN  IF neighbor_idx \in st.visited
             THEN DijkstraRelax(st, edges, k + 1, current_idx, current_dist)
             ELSE IF neighbor_idx \notin DOMAIN st.distances
                     \/ new_dist < st.distances[neighbor_idx]
             THEN DijkstraRelax(
                      [st EXCEPT !.distances = Put(@, neighbor_idx, new_dist),
                                 !.previous = Put(@, neighbor_idx, current_idx),
                                 !.pq = @ \cup {<<new_dist, neighbor_idx>>}],
                      edges, k + 1, current_idx, current_dist)
             ELSE DijkstraRelax(st, edges, k + 1, current_idx, current_dist)

\* st holds pq, distances, previous and visited.  The queue is a set: an
\* entry pushed twice is popped once more in the source, for a vertex then
\* already visited.
RECURSIVE DijkstraLoop(_, _, _, _, _)
DijkstraLoop(graph, vertices, start_idx, goal_idx, st) ==
    IF st.pq = {} THEN RetNone
    ELSE LET top == CHOOSE e \in st.pq :
                        \A f \in st.pq : e[1] < f[1] \/ (e[1] = f[1] /\ e[2] <= f[2])
             current_dist == top[1]
             current_idx == top[2]
             popped == [st EXCEPT !.pq = @ \ {top}]
             edges == IF current_idx \in DOMAIN graph THEN graph[current_idx] ELSE <<>>
         IN  IF current_idx \in st.visited
             THEN DijkstraLoop(graph, vertices, start_idx, goal_idx, popped)
             ELSE IF current_idx = goal_idx
             THEN [length |-> st.distances[goal_idx],
                   nodes |-> DijkstraPath(st.previous, vertices, goal_idx, start_idx)]
             ELSE DijkstraLoop(graph, vertices, start_idx, goal_idx,
                      DijkstraRelax([popped EXCEPT !.visited = @ \cup {current_idx}],
                                    edges, 1, current_idx, current_dist))

_dijkstra(graph, start_idx, goal_idx, vertices) ==
    DijkstraLoop(graph, vertices, start_idx, goal_idx,
                 [pq |-> {<<0, start_idx>>}, distances |-> [n \in {start_idx} |-> 0],
                  previous |-> <<>>, visited |-> {}])


(***************************************************************************)
(* Fast A* for dense boards.  Nodes are keyed by their coordinates, so a   *)
(* point is its own _node_key.                                             *)
(***************************************************************************)

\* Iteration order of a set of small integers: ascending.
SetToSeq(S) ==
    [k \in 1..Cardinality(S) |-> CHOOSE i \in S : Cardinality({j \in S : j < i}) = k - 1]

_heuristic(node, goal) == get_distance(node, goal)

\* The two sampled vertices of one obstacle that are closest to the goal,
\* kept when the line from current to them is clear.
SampledVertices(current, goal, obstacles, index, order, i) ==
    LET polygon == obstacles[i].polygon
        point_count == Len(polygon)
        candidates == EveryNth(polygon, Max2(1, point_count \div 4))
        Less(a, b) ==
            \/ DistSq(a, goal) < DistSq(b, goal)
            \/ (DistSq(a, goal) = DistSq(b, goal) /\ a # b /\ VecLess(order, a, b))
        before == [m \in DOMAIN candidates, n \in DOMAIN candidates |->
                      Less(candidates[m], candidates[n])]
        Clear(vertex) ==
            ~ _path_crosses_obstacle_fast(current, vertex, obstacles,
                    get_obstacles_near_line(index, current, vertex))
    IN  IF point_count = 0 THEN <<>>
        ELSE SelectSeq(Take(SortStable(candidates, before), 2), Clear)

_get_fast_neighbors(current, goal, obstacles, index, max_neighbors, order) ==
    IF ~ _path_crosses_obstacle_fast(current, goal, obstacles,
                                     get_obstacles_near_line(index, current, goal))
    THEN <<goal>>
    ELSE LET search_radius_cells == 3
             current_cell_x == current.x \div index.cell_size
             current_cell_y == current.y \div index.cell_size
             reach == (0 - search_radius_cells)..search_radius_cells
             cells == {<<current_cell_x + dx, current_cell_y + dy>> :
                         dx \in reach, dy \in reach} \cap DOMAIN index.grid
             nearby_obstacle_indices == UNION {index.grid[c] : c \in cells}
             nearby_obstacles_list == Take(SetToSeq(nearby_obstacle_indices), 50)
             found == Flatten([k \in DOMAIN nearby_obstacles_list |->
                         SampledVertices(current, goal, obstacles, index, order,
                                         nearby_obstacles_list[k])])
             neighbors == Take(found, max_neighbors * 2)
             Detour(n) == get_distance(current, n) + get_distance(n, goal)
             before == [i \in DOMAIN neighbors, j \in DOMAIN neighbors |->
                           Detour(neighbors[i]) < Detour(neighbors[j])]
         IN  IF Len(neighbors) > max_neighbors
             THEN Take(SortStable(neighbors, before), max_neighbors)
             ELSE neighbors

RECURSIVE _reconstruct_path(_, _, _)
_reconstruct_path(came_from, current, start) ==
    IF current \in DOMAIN came_from
    THEN _reconstruct_path(came_from, came_from[current], start) \o <<current>>
    ELSE <<current>>

RECURSIVE PathLengthFrom(_, _)
PathLengthFrom(path, i) ==
    IF i >= Len(path) THEN 0
    ELSE get_distance(path[i], path[i + 1]) + PathLengthFrom(path, i + 1)

_calculate_path_length(path) == PathLengthFrom(path, 1)

RECURSIVE AStarRelax(_, _, _, _, _)
AStarRelax(st, current, neighbors, k, goal) ==
    IF k > Len(neighbors) THEN st
    ELSE LET neighbor == neighbors[k]
             tentative_g == st.g_score[current] + get_distance(current, neighbor)
         IN  IF neighbor \in st.closed_set
             THEN AStarRelax(st, current, neighbors, k + 1, goal)
             ELSE IF neighbor \notin DOMAIN st.g_score \/ tentative_g < st.g_score[neighbor]
             THEN AStarRelax(
                      [st EXCEPT !.came_from = Put(@, neighbor, current),
                                 !.g_score = Put(@, neighbor, tentative_g),
                                 !.open_set = @ \cup {<<tentative_g + _heuristic(neighbor, goal),
                                                        st.counter, neighbor>>},
                                 !.counter = @ + 1],
                      current, neighbors, k + 1, goal)
             ELSE AStarRelax(st, current, neighbors, k + 1, goal)

\* An A* that searches until its open set is empty.
RECURSIVE AStarLoop_Uncapped(_, _, _, _, _, _)
AStarLoop_Uncapped(st, start, goal, obstacles, index, order) ==
    IF st.open_set = {}
    THEN [result |-> RetNone, iterations |-> st.iterations, open_set |-> st.open_set]
    ELSE LET top == CHOOSE e \in st.open_set :
                        \A f \in st.open_set :
                            e[1] < f[1] \/ (e[1] = f[1] /\ e[2] <= f[2])
             current == top[3]
             popped == [st EXCEPT !.open_set = @ \ {top}, !.iterations = @ + 1]
             path == _reconstruct_path(st.came_from, current, start)
         IN  IF 100 * DistSq(current, goal) < FromMM(1) * FromMM(1)
             THEN [result |-> [length |-> _calculate_path_length(path), nodes |-> path],
                   iterations |-> popped.iterations, open_set |-> popped.open_set]
             ELSE IF current \in st.closed_set
             THEN AStarLoop_Uncapped(popped, start, goal, obstacles, index, order)
             ELSE AStarLoop_Uncapped(
                      AStarRelax([popped EXCEPT !.closed_set = @ \cup {current}],
                                 current,
                                 _get_fast_neighbors(current, goal, obstacles, index,
                                                     8, order),
                                 1, goal),
                      start, goal, obstacles, index, order)

\* The main loop.  The result comes with the iteration count of the log
\* lines and the open set left at the return.
RECURSIVE AStarLoop(_, _, _, _, _, _)
AStarLoop(st, start, goal, obstacles, index, order) ==
    LET max_iterations == 100
        max_neighbors == 8
    IN  IF st.open_set = {} \/ st.iterations >= max_iterations
        THEN [result |-> RetNone, iterations |-> st.iterations, open_set |-> st.open_set]
        ELSE LET top == CHOOSE e \in st.open_set :
                            \A f \in st.open_set :
                                e[1] < f[1] \/ (e[1] = f[1] /\ e[2] <= f[2])
                 current == top[3]
                 popped == [st EXCEPT !.open_set = @ \ {top}, !.iterations = @ + 1]
                 path == _reconstruct_path(st.came_from, current, start)
             IN  IF 100 * DistSq(current, goal) < FromMM(1) * FromMM(1)
                 THEN [result |-> [length |-> _calculate_path_length(path),
                                   nodes |-> path],
                       iterations |-> popped.iterations, open_set |-> popped.open_set]
                 ELSE IF current \in st.closed_set
                 THEN AStarLoop(popped, start, goal, obstacles, index, order)
                 ELSE AStarLoop(
                          AStarRelax([popped EXCEPT !.closed_set = @ \cup {current}],
                                     current,
                                     _get_fast_neighbors(current, goal, obstacles, index,
                                                         max_neighbors, order),
                                     1, goal),
                          start, goal, obstacles, index, order)

DirectPath(start, goal) == [length |-> get_distance(start, goal), nodes |-> <<start, goal>>]

\* The search of _astar_surface_path_fast with its iteration count: none
\* when the direct line is clear.
AStarSearch(start, goal, obstacles, order) ==
    IF ~ _path_crosses_obstacle(start, goal, obstacles)
    THEN [result |-> DirectPath(start, goal), iterations |-> 0, open_set |-> {}]
    ELSE AStarLoop([open_set |-> {<<_heuristic(start, goal), 0, start>>},
                    closed_set |-> {},
                    came_from |-> <<>>,
                    g_score |-> [n \in {start} |-> 0],
                    counter |-> 1,
                    iterations |-> 0],
                   start, goal, obstacles, ObstacleSpatialIndex(obstacles, 10), order)

_astar_surface_path_fast(start_pad, goal_pad, obstacles, layer, order) ==
    AStarSearch(start_pad.position, goal_pad.position, obstacles, order).result

\* The call logs its iteration count; open_set is the size of the queue
\* when it returned.
AStarSurfacePathFast ==
    /\ "astar" \in DOMAIN input
    /\ \E out \in {AStarSearch(input.start_pad.position, input.goal_pad.position,
                               input.obstacles, input.vector_order)} :
           /\ call' = [op |-> "_astar_surface_path_fast",
                       iterations |-> out.iterations,
                       open_set |-> Cardinality(out.open_set)]
           /\ ret' = out.result
    /\ UNCHANGED <<cfgVars, input, spatial_index, visibility_graph, creepage_stats,
                   boardVars, countVars>>


(***************************************************************************)
(* Obstacle map of a layer: the copper of every net outside the two        *)
(* domains, restricted to a box around the closest pair of domain pads.    *)
(* Pads are rectangles on one layer, tracks axis-aligned, zones given by   *)
(* their outline.                                                          *)
(***************************************************************************)
Track(start, end, width, layer, net) ==
    [start |-> start, end |-> end, width |-> width, layer |-> layer, net |-> net]

Zone(outline, layer, net) == [outline |-> outline, layer |-> layer, net |-> net]

NetPad(pos, size, layer, net) == Pad(pos, size, layer) @@ [net |-> net]

TrackPolygon(track) ==
    RectPolygon(Min2(track.start.x, track.end.x) - track.width \div 2,
                Min2(track.start.y, track.end.y) - track.width \div 2,
                Max2(track.start.x, track.end.x) + track.width \div 2,
                Max2(track.start.y, track.end.y) + track.width \div 2)

NetsOfDomain(dmap, domain) == {net \in DOMAIN dmap : dmap[net].domain_name = domain}

\* The first pair, in iteration order, of least centre distance.
ClosestPadPair(pads_a, pads_b) ==
    LET pairs == [k \in 1..(Len(pads_a) * Len(pads_b)) |->
                    <<pads_a[((k - 1) \div Len(pads_b)) + 1].position,
                      pads_b[((k - 1) % Len(pads_b)) + 1].position>>]
        d(k) == DistSq(pairs[k][1], pairs[k][2])
    IN  pairs[CHOOSE k \in DOMAIN pairs :
                /\ \A j \in DOMAIN pairs : d(k) <= d(j)
                /\ \A j \in 1..(k - 1) : d(j) > d(k)]

ObstacleSearchMargin(cfg) == CfgGet(cfg, "obstacle_search_margin_mm", 20)

_build_obstacle_map_for_layer(brd, dmap, cfg, domain_a, domain_b, layer) ==
    LET nets_a == NetsOfDomain(dmap, domain_a)
        nets_b == NetsOfDomain(dmap, domain_b) \ nets_a
        excluded_nets == nets_a \cup nets_b
        OnLayer(item) == item.layer = layer
        pads_a == SelectSeq(brd.pads, LAMBDA pad : OnLayer(pad) /\ pad.net \in nets_a)
        pads_b == SelectSeq(brd.pads, LAMBDA pad : OnLayer(pad) /\ pad.net \in nets_b)
        spatial_filtering_enabled == pads_a # <<>> /\ pads_b # <<>>
        closest == ClosestPadPair(pads_a, pads_b)
        margin == FromMM(ObstacleSearchMargin(cfg))
        in_bounding_box(pos) ==
            spatial_filtering_enabled =>
                /\ Min2(closest[1].x, closest[2].x) - margin <= pos.x
                /\ pos.x <= Max2(closest[1].x, closest[2].x) + margin
                /\ Min2(closest[1].y, closest[2].y) - margin <= pos.y
                /\ pos.y <= Max2(closest[1].y, closest[2].y) + margin
        Foreign(item) == OnLayer(item) /\ item.net \notin excluded_nets /\ item.net # ""
        pads == SelectSeq(brd.pads, LAMBDA pad :
                    Foreign(pad) /\ in_bounding_box(pad.position))
        tracks == SelectSeq(brd.tracks, LAMBDA track :
                    Foreign(track)
                        /\ (in_bounding_box(track.start) \/ in_bounding_box(track.end)))
        ZoneCenter(zone) ==
            LET zone_bbox == PolyBBox(zone.outline)
            IN  Pt((zone_bbox.left + zone_bbox.right) \div 2,
                   (zone_bbox.top + zone_bbox.bottom) \div 2)
        zones == SelectSeq(brd.zones, LAMBDA zone :
                    Foreign(zone) /\ in_bounding_box(ZoneCenter(zone)))
    IN  [k \in DOMAIN pads |->
            Obstacle(_get_pad_polygon(pads[k], layer), pads[k].net, "pad")]
        \o [k \in DOMAIN tracks |->
            Obstacle(TrackPolygon(tracks[k]), tracks[k].net, "track")]
        \o [k \in DOMAIN zones |->
            Obstacle(zones[k].outline, zones[k].net, "zone")]

(***************************************************************************)
(* _visibility_graph_path and _calculate_creepage.  An outcome carries the *)
(* result together with the spatial index and the graph built on the way   *)
(* (NoIndex, NoGraph when none was built).                                 *)
(***************************************************************************)
GraphThreshold == 100

UsesFallback_AtLeast(obstacles) == Len(obstacles) >= GraphThreshold

UsesFallback(obstacles) == Len(obstacles) > GraphThreshold

DirectIsClear_Never(start, goal, obstacles) == FALSE

DirectIsClear(start, goal, obstacles) == ~ _path_crosses_obstacle(start, goal, obstacles)

_visibility_graph_path(start_pad, goal_pad, obstacles, layer, order) ==
    LET start == start_pad.position
        goal == goal_pad.position
        index == ObstacleSpatialIndex(obstacles, 5)
        Shortest(built) ==
            [result |-> _dijkstra(built.graph, 1, 2, built.vertices),
             index |-> index, graph |-> built]
    IN  IF DirectIsClear(start, goal, obstacles)
        THEN [result |-> DirectPath(start, goal), index |-> NoIndex, graph |-> NoGraph]
        ELSE IF UsesFallback(obstacles)
        THEN [result |-> _astar_surface_path_fast(start_pad, goal_pad, obstacles, layer, order),
              index |-> ObstacleSpatialIndex(obstacles, 10), graph |-> NoGraph]
        ELSE Shortest(_build_visibility_graph(start, goal, obstacles, index, order))

_astar_surface_path(start_pad, goal_pad, obstacles, layer, order) ==
    _visibility_graph_path(start_pad, goal_pad, obstacles, layer, order)

VisibilityGraphPath ==
    /\ "start_pad" \in DOMAIN input
    /\ \E out \in {_visibility_graph_path(input.start_pad, input.goal_pad,
                                           input.obstacles, input.layer,
                                           input.vector_order)} :
           /\ call' = [op |-> "_visibility_graph_path", start_pad |-> input.start_pad,
                       goal_pad |-> input.goal_pad, layer |-> input.layer]
           /\ ret' = out.result
           /\ spatial_index' = IF out.index = NoIndex THEN spatial_index ELSE out.index
           /\ visibility_graph' = IF out.graph = NoGraph THEN visibility_graph ELSE out.graph
    /\ UNCHANGED <<cfgVars, input, creepage_stats, boardVars, countVars>>


\* float('inf') among the fixed-point path lengths.
InfLength == 0 - 1

LengthLess(a, b) == a # InfLength /\ (b = InfLength \/ a < b)

\* self.max_obstacles
max_obstacles(cfg) == CfgGet(cfg, "max_obstacles", 500)

ExceedsCap_AtLeast(count, cfg) == count >= max_obstacles(cfg)

ExceedsCap(count, cfg) == count > max_obstacles(cfg)

\* The pad pairs of the first max_pads_per_domain pads of each domain,
\* closest first, cut to max_pairs_to_check.
PairsToCheck(pads_a, pads_b) ==
    LET max_pads_per_domain == 5
        max_pairs_to_check == Min2(3, Len(pads_a) * Len(pads_b))
        first_a == Take(pads_a, max_pads_per_domain)
        first_b == Take(pads_b, max_pads_per_domain)
        pairs == [k \in 1..(Len(first_a) * Len(first_b)) |->
                    [pad_a |-> first_a[((k - 1) \div Len(first_b)) + 1],
                     pad_b |-> first_b[((k - 1) % Len(first_b)) + 1]]]
        approx_dist(k) == DistSq(pairs[k].pad_a.position, pairs[k].pad_b.position)
        before == [i \in DOMAIN pairs, j \in DOMAIN pairs |->
                      approx_dist(i) < approx_dist(j)]
    IN  Take(SortStable(pairs, before), max_pairs_to_check)

NoPath ==
    [result |-> [min_creepage |-> InfLength, best_path |-> <<>>,
                 best_start_pad |-> <<>>, best_end_pad |-> <<>>],
     index |-> NoIndex, graph |-> NoGraph]

RECURSIVE CreepageScan(_, _, _, _, _, _)
CreepageScan(pairs, k, obstacles, layer, order, best) ==
    IF k > Len(pairs) THEN best
    ELSE LET Shorter(path) ==
                 path # RetNone /\ LengthLess(path.length, best.result.min_creepage)
             Better(out) ==
                 [result |-> IF Shorter(out.result)
                             THEN [min_creepage |-> out.result.length,
                                   best_path |-> <<out.result.nodes>>,
                                   best_start_pad |-> <<pairs[k].pad_a>>,
                                   best_end_pad |-> <<pairs[k].pad_b>>]
                             ELSE best.result,
                  index |-> IF out.index = NoIndex THEN best.index ELSE out.index,
                  graph |-> IF out.graph = NoGraph THEN best.graph ELSE out.graph]
         IN  CreepageScan(pairs, k + 1, obstacles, layer, order,
                 Better(_astar_surface_path(pairs[k].pad_a, pairs[k].pad_b,
                                            obstacles, layer, order)))

\* A version which records the skip and searches for a path all the same.
_calculate_creepage_SkipsAndSearches(brd, dmap, cfg, stats, domain_a, domain_b, pads_a, pads_b, layer, order) ==
    LET obstacles == _build_obstacle_map_for_layer(brd, dmap, cfg, domain_a, domain_b, layer)
        skipped == [stats EXCEPT !.layers_skipped_obstacles =
                       Append(@, <<domain_a, domain_b, LayerName(layer), Len(obstacles)>>)]
        Minimum(scanned) ==
            [result |-> scanned.result,
             stats |-> IF ExceedsCap(Len(obstacles), cfg) THEN skipped ELSE stats,
             index |-> scanned.index, graph |-> scanned.graph, pathfinding |-> TRUE]
    IN  Minimum(CreepageScan(PairsToCheck(pads_a, pads_b), 1, obstacles, layer, order, NoPath))

_calculate_creepage(brd, dmap, cfg, stats, domain_a, domain_b, pads_a, pads_b, layer, order) ==
    LET obstacles == _build_obstacle_map_for_layer(brd, dmap, cfg, domain_a, domain_b, layer)
        layer_name == LayerName(layer)
        pairs_to_check == PairsToCheck(pads_a, pads_b)
        Minimum(scanned) ==
            [result |-> scanned.result, stats |-> stats,
             index |-> scanned.index, graph |-> scanned.graph,
             pathfinding |-> pairs_to_check # <<>>]
    IN  IF ExceedsCap(Len(obstacles), cfg)
        THEN [result |-> RetNone,
              stats |-> [stats EXCEPT !.layers_skipped_obstacles =
                            Append(@, <<domain_a, domain_b, layer_name, Len(obstacles)>>)],
              index |-> NoIndex, graph |-> NoGraph, pathfinding |-> FALSE]
        ELSE Minimum(CreepageScan(pairs_to_check, 1, obstacles, layer, order, NoPath))

MaxSkipped == 2

CalculateCreepage ==
    /\ "pads_a" \in DOMAIN input
    /\ Len(creepage_stats.layers_skipped_obstacles) < MaxSkipped
    /\ \E out \in {_calculate_creepage(board, domain_map, config, creepage_stats,
                                        input.domain_a, input.domain_b,
                                        input.pads_a, input.pads_b, input.layer,
                                        input.vector_order)} :
           /\ call' = [op |-> "_calculate_creepage",
                       domain_a |-> input.domain_a, domain_b |-> input.domain_b,
                       layer |-> input.layer, pathfinding |-> out.pathfinding]
           /\ ret' = out.result
           /\ creepage_stats' = out.stats
           /\ spatial_index' = IF out.index = NoIndex THEN spatial_index ELSE out.index
           /\ visibility_graph' = IF out.graph = NoGraph THEN visibility_graph ELSE out.graph
    /\ UNCHANGED <<cfgVars, input, boardVars, countVars>>


(***************************************************************************)
(* Surface paths: pads facing each other across no copper, across a small  *)
(* pad, across a wall, and on a dense board of more than GraphThreshold    *)
(* obstacles; creepage on small boards under several obstacle caps.        *)
(***************************************************************************)
FarObstacles(n) == [i \in 1..n |-> RectObstacle(100, 100, 101, 101)]

SmallPad == RectObstacle(7, 5, 8, 6)

Wall == RectObstacle(9, 2, 11, 8)

DensePad == RectObstacle(14, 10, 16, 12)

PathObstacleLists ==
    {<<>>, <<SmallPad>>, <<Wall>>, <<Wall, SmallPad>>,
     FarObstacles(GraphThreshold) \o <<DensePad>>,
     FarObstacles(GraphThreshold) \o <<Wall>>,
     FarObstacles(GraphThreshold + 1)}

PathStarts == {Pt(4, 0), Pt(0, 5), Pt(8, 0), Pt(0, 9)}

PathGoals == {Pt(10, 8), Pt(20, 5), Pt(20, 16), Pt(20, 9)}

\* n small pads on a 4 mm lattice away from the pads under test.
DistantPads(n) ==
    [k \in 1..n |->
        RectObstacle(40 + 4 * ((k - 1) % 10), 40 + 4 * ((k - 1) \div 10),
                     41 + 4 * ((k - 1) % 10), 41 + 4 * ((k - 1) \div 10))]

\* A wall between the pads on a board of exactly GraphThreshold obstacles.
ThresholdBoard == <<Wall>> \o DistantPads(GraphThreshold - 1)

PathInputs ==
    {[start_pad |-> NetPad(a, Pt(2, 2), "F_Cu", "L"),
      goal_pad |-> NetPad(b, Pt(2, 2), "F_Cu", "5V"),
      obstacles |-> o, layer |-> "F_Cu", vector_order |-> v] :
        a \in PathStarts, b \in PathGoals, o \in PathObstacleLists, v \in VectorOrders}
    \cup
    {[start_pad |-> NetPad(Pt(0, 9), Pt(2, 2), "F_Cu", "L"),
      goal_pad |-> NetPad(Pt(20, 5), Pt(2, 2), "F_Cu", "5V"),
      obstacles |-> ThresholdBoard, layer |-> "F_Cu", vector_order |-> "norm"]}

DomainMap ==
    [net \in {"L", "5V"} |->
        IF net = "L"
        THEN [domain_name |-> "MAINS", voltage_rms |-> 230,
              requires_reinforced_insulation |-> TRUE]
        ELSE [domain_name |-> "SELV", voltage_rms |-> 5,
              requires_reinforced_insulation |-> FALSE]]

MainsPad == NetPad(Pt(0, 5), Pt(2, 2), "F_Cu", "L")

SelvPads == <<NetPad(Pt(20, 5), Pt(2, 2), "F_Cu", "5V"),
              NetPad(Pt(20, 16), Pt(2, 2), "F_Cu", "5V")>>

ForeignPads ==
    <<NetPad(Pt(10, 5), Pt(2, 6), "F_Cu", "GND"),
      NetPad(Pt(60, 5), Pt(2, 2), "F_Cu", "GND"),
      NetPad(Pt(10, 12), Pt(2, 2), "F_Cu", ""),
      NetPad(Pt(10, 5), Pt(2, 2), "B_Cu", "GND")>>

Boards ==
    {[pads |-> <<MainsPad>> \o SelvPads \o p, tracks |-> t, zones |-> z] :
        p \in {<<>>, Take(ForeignPads, 1), ForeignPads},
        t \in {<<>>, <<Track(Pt(5, 0), Pt(15, 0), 2, "F_Cu", "GND")>>},
        z \in {<<>>, <<Zone(RectPolygon(9, 12, 11, 14), "F_Cu", "GND")>>}}

ObstacleCaps == {<<>>, <<0>>, <<1>>, <<2>>}

CreepageInputs ==
    {[domain_a |-> "MAINS", domain_b |-> "SELV", pads_a |-> <<MainsPad>>,
      pads_b |-> SelvPads, layer |-> l, vector_order |-> v] :
        l \in {"F_Cu", "B_Cu"}, v \in VectorOrders}

InitPath ==
    /\ \/ /\ input \in PathInputs
          /\ config = <<>>
          /\ board = NoBoard
          /\ domain_map = <<>>
       \/ /\ input \in CreepageInputs
          /\ config \in {WithKey(<<>>, "max_obstacles", c) : c \in ObstacleCaps}
          /\ board \in Boards
          /\ domain_map = DomainMap
    /\ standard_params = _parse_standard_params(config)
    /\ isolation_requirements = <<>>
    /\ call = NoCall
    /\ ret = NoRet
    /\ spatial_index = NoIndex
    /\ visibility_graph = NoGraph
    /\ creepage_stats = NoStats
    /\ NoViolations

NextPath == VisibilityGraphPath \/ CalculateCreepage

SpecPath == InitPath /\ [][NextPath]_vars

(***************************************************************************)
(* The fast A* on its own: the small boards above, and a board of a        *)
(* lattice of small pads in front of a goal that foreign copper encloses,  *)
(* which keeps the search busy for longer than its iteration limit.        *)
(***************************************************************************)
Lattice(n) ==
    [k \in 1..(n * n) |->
        RectObstacle(10 * ((k - 1) % n) + 4, 10 * ((k - 1) \div n) + 4,
                     10 * ((k - 1) % n) + 5, 10 * ((k - 1) \div n) + 5)]

Enclosure == RectObstacle(68, 68, 72, 72)

AStarInputs ==
    {[astar |-> TRUE,
      start_pad |-> NetPad(a, Pt(2, 2), "F_Cu", "L"),
      goal_pad |-> NetPad(b, Pt(2, 2), "F_Cu", "5V"),
      obstacles |-> o, layer |-> "F_Cu", vector_order |-> v] :
        a \in PathStarts, b \in PathGoals,
        o \in {<<>>, <<SmallPad>>, <<Wall>>, <<Wall, SmallPad>>, <<DensePad>>},
        v \in VectorOrders}
    \cup
    {[astar |-> TRUE,
      start_pad |-> NetPad(Pt(0, 0), Pt(2, 2), "F_Cu", "L"),
      goal_pad |-> NetPad(Pt(70, 70), Pt(2, 2), "F_Cu", "5V"),
      obstacles |-> Lattice(n) \o <<Enclosure>>, layer |-> "F_Cu",
      vector_order |-> v] : n \in {2, 7}, v \in VectorOrders}

\* _get_fast_neighbors on its own, over the index of 10 mm cells the fast
\* A* builds: a pad on the end of a wider copper area, with which it
\* shares two corners, and pads all around the current node.
GetFastNeighbors ==
    /\ "current" \in DOMAIN input
    /\ spatial_index # NoIndex
    /\ call' = [op |-> "_get_fast_neighbors", current |-> input.current,
                goal |-> input.goal, max_neighbors |-> input.max_neighbors]
    /\ ret' = [neighbors |-> _get_fast_neighbors(input.current, input.goal,
                                                 input.obstacles, spatial_index,
                                                 input.max_neighbors,
                                                 input.vector_order)]
    /\ UNCHANGED <<cfgVars, input, pathVars, creepage_stats, boardVars, countVars>>

NeighborObstacleLists ==
    {<<>>, <<SmallPad>>, <<Wall>>, <<Wall, SmallPad>>,
     <<Wall, RectObstacle(9, 5, 11, 8)>>,
     Lattice(3), Lattice(4)}

NeighborInputs ==
    {[current |-> a, goal |-> b, obstacles |-> o, max_neighbors |-> 8,
      vector_order |-> v] :
        a \in PathStarts \cup {Pt(10, 10)}, b \in PathGoals \cup {Pt(24, 24)},
        o \in NeighborObstacleLists, v \in VectorOrders}

InitAStar ==
    /\ input \in AStarInputs \cup NeighborInputs
    /\ config = <<>>
    /\ board = NoBoard
    /\ domain_map = <<>>
    /\ standard_params = _parse_standard_params(config)
    /\ isolation_requirements = <<>>
    /\ call = NoCall
    /\ ret = NoRet
    /\ spatial_index = IF "current" \in DOMAIN input
                       THEN ObstacleSpatialIndex(input.obstacles, 10)
                       ELSE NoIndex
    /\ visibility_graph = NoGraph
    /\ creepage_stats = NoStats
    /\ NoViolations

NextAStar == AStarSurfacePathFast \/ GetFastNeighbors

SpecAStar == InitAStar /\ [][NextAStar]_vars


(***************************************************************************)
(* The two geometric primitives on every point of a small grid.            *)
(***************************************************************************)
PointCoord == 3

SegmentCoord == 2

GridPoints(n) == {Pt(x, y) : x \in 0..n, y \in 0..n}

GeometryInputs ==
    {[point |-> p, seg_start |-> a, seg_end |-> b] :
        p \in GridPoints(PointCoord), a \in GridPoints(PointCoord),
        b \in GridPoints(PointCoord)}
    \cup
    {[p1 |-> a, p2 |-> b, p3 |-> c, p4 |-> d] :
        a \in GridPoints(SegmentCoord), b \in GridPoints(SegmentCoord),
        c \in GridPoints(SegmentCoord), d \in GridPoints(SegmentCoord)}

\* The distance is returned squared, as the model computes it.
PointToSegmentDistance ==
    /\ "point" \in DOMAIN input
    /\ call' = [op |-> "_point_to_segment_distance", point |-> input.point,
                seg_start |-> input.seg_start, seg_end |-> input.seg_end]
    /\ ret' = [distance_sq |-> _point_to_segment_distance(input.point, input.seg_start,
                                                          input.seg_end)]
    /\ UNCHANGED <<cfgVars, input, pathVars, creepage_stats, boardVars, countVars>>

SegmentsIntersect ==
    /\ "p1" \in DOMAIN input
    /\ call' = [op |-> "_segments_intersect", p1 |-> input.p1, p2 |-> input.p2,
                p3 |-> input.p3, p4 |-> input.p4]
    /\ ret' = [intersect |-> _segments_intersect(input.p1, input.p2, input.p3, input.p4)]
    /\ UNCHANGED <<cfgVars, input, pathVars, creepage_stats, boardVars, countVars>>

InitGeometry ==
    /\ input \in GeometryInputs
    /\ config = <<>>
    /\ board = NoBoard
    /\ domain_map = <<>>
    /\ standard_params = _parse_standard_params(config)
    /\ isolation_requirements = <<>>
    /\ call = NoCall
    /\ ret = NoRet
    /\ spatial_index = NoIndex
    /\ visibility_graph = NoGraph
    /\ creepage_stats = NoStats
    /\ NoViolations

NextGeometry == PointToSegmentDistance \/ SegmentsIntersect

SpecGeometry == InitGeometry /\ [][NextGeometry]_vars


(***************************************************************************)
(* The obstacle map on its own: a mains pad and a low-voltage pad with     *)
(* foreign pads, tracks and zones inside the search box, across its border *)
(* and outside it, under the default margin and a narrow one.              *)
(***************************************************************************)
BuildObstacleMapForLayer ==
    /\ "build" \in DOMAIN input
    /\ call' = [op |-> "_build_obstacle_map_for_layer", domain_a |-> input.domain_a,
                domain_b |-> input.domain_b, layer |-> input.layer]
    /\ ret' = [obstacles |-> _build_obstacle_map_for_layer(board, domain_map, config,
                                 input.domain_a, input.domain_b, input.layer)]
    /\ UNCHANGED <<cfgVars, input, pathVars, creepage_stats, boardVars, countVars>>

ObstaclePads ==
    {<<>>,
     <<NetPad(Pt(10, 5), Pt(2, 2), "F_Cu", "GND")>>,
     <<NetPad(Pt(41, 5), Pt(4, 4), "F_Cu", "GND")>>,
     <<NetPad(Pt(10, 8), Pt(2, 2), "F_Cu", ""),
       NetPad(Pt(10, 2), Pt(2, 2), "F_Cu", "5V")>>,
     <<NetPad(Pt(10, 5), Pt(2, 2), "B_Cu", "GND"),
       NetPad(Pt(90, 5), Pt(2, 2), "F_Cu", "GND")>>}

ObstacleTracks ==
    {<<>>,
     <<Track(Pt(10, 0), Pt(10, 60), 2, "F_Cu", "GND")>>,
     <<Track(Pt(10, 0 - 30), Pt(10, 40), 2, "F_Cu", "GND")>>,
     <<Track(Pt(10, 0 - 30), Pt(10, 40), 2, "F_Cu", "L"),
       Track(Pt(5, 60), Pt(15, 60), 2, "F_Cu", "GND")>>}

ObstacleZones ==
    {<<>>,
     <<Zone(RectPolygon(9, 12, 11, 14), "F_Cu", "GND")>>,
     <<Zone(RectPolygon(30, 0, 100, 10), "F_Cu", "GND")>>}

ObstacleBoards ==
    {[pads |-> <<MainsPad, SelvPads[1]>> \o p, tracks |-> t, zones |-> z] :
        p \in ObstaclePads, t \in ObstacleTracks, z \in ObstacleZones}

InitObstacles ==
    /\ input \in {[build |-> TRUE, domain_a |-> "MAINS", domain_b |-> "SELV",
                   layer |-> l] : l \in {"F_Cu", "B_Cu"}}
    /\ config \in {WithKey(<<>>, "obstacle_search_margin_mm", m) : m \in {<<>>, <<2>>}}
    /\ board \in ObstacleBoards
    /\ domain_map = DomainMap
    /\ standard_params = _parse_standard_params(config)
    /\ isolation_requirements = <<>>
    /\ call = NoCall
    /\ ret = NoRet
    /\ spatial_index = NoIndex
    /\ visibility_graph = NoGraph
    /\ creepage_stats = NoStats
    /\ NoViolations

NextObstacles == BuildObstacleMapForLayer

SpecObstacles == InitObstacles /\ [][NextObstacles]_vars


(***************************************************************************)
(* Dijkstra on its own: every graph on four vertices with each pair of     *)
(* vertices unlinked or linked in both directions or in one, with weights  *)
(* up to MaxWeight, and graphs with parallel and weightless edges.         *)
(***************************************************************************)
Dijkstra ==
    /\ "graph" \in DOMAIN input
    /\ call' = [op |-> "_dijkstra", start_idx |-> input.start_idx,
                goal_idx |-> input.goal_idx]
    /\ ret' = _dijkstra(input.graph, input.start_idx, input.goal_idx, input.vertices)
    /\ UNCHANGED <<cfgVars, input, pathVars, creepage_stats, boardVars, countVars>>

MaxWeight == 2

GraphVertices == <<Pt(0, 0), Pt(9, 0), Pt(3, 4), Pt(6, 4)>>

VertexPairs ==
    {<<a, b>> \in (DOMAIN GraphVertices) \X (DOMAIN GraphVertices) : a < b}

\* The adjacency lists of the links: weight 0 is no link, and in a one-way
\* graph a link leads from the lower vertex to the higher only.
AdjacencyLists(weights, both_ways) ==
    [a \in DOMAIN GraphVertices |->
        LET Linked(b) ==
                IF a < b THEN weights[<<a, b>>] # 0
                ELSE a # b /\ both_ways /\ weights[<<b, a>>] # 0
            Weight(b) == IF a < b THEN weights[<<a, b>>] ELSE weights[<<b, a>>]
            others == SelectSeq(SetToSeq(DOMAIN GraphVertices), Linked)
        IN  [k \in DOMAIN others |-> <<others[k], Weight(others[k])>>]]

\* 1 -> 2 by a heavy and a light parallel edge, by a weightless detour, and
\* a graph in which only the start has an entry.
SpecialGraphs ==
    {[a \in DOMAIN GraphVertices |->
         IF a = 1 THEN <<<<2, 5>>, <<2, 3>>, <<3, 1>>>>
         ELSE IF a = 3 THEN <<<<2, 1>>, <<1, 1>>>> ELSE <<>>],
     [a \in DOMAIN GraphVertices |->
         IF a = 1 THEN <<<<2, 2>>, <<3, 0>>>>
         ELSE IF a = 3 THEN <<<<4, 0>>>>
         ELSE IF a = 4 THEN <<<<2, 0>>, <<3, 0>>>> ELSE <<>>],
     [a \in {1} |-> <<<<3, 1>>, <<4, 2>>>>]}

DijkstraGraphs ==
    {AdjacencyLists(w, b) : w \in [VertexPairs -> 0..MaxWeight], b \in BOOLEAN}
    \cup SpecialGraphs

DijkstraInputs ==
    {[graph |-> g, start_idx |-> 1, goal_idx |-> t, vertices |-> GraphVertices] :
        g \in DijkstraGraphs, t \in {1, 2}}

InitDijkstra ==
    /\ input \in DijkstraInputs
    /\ config = <<>>
    /\ board = NoBoard
    /\ domain_map = <<>>
    /\ standard_params = _parse_standard_params(config)
    /\ isolation_requirements = <<>>
    /\ call = NoCall
    /\ ret = NoRet
    /\ spatial_index = NoIndex
    /\ visibility_graph = NoGraph
    /\ creepage_stats = NoStats
    /\ NoViolations

NextDijkstra == Dijkstra

SpecDijkstra == InitDijkstra /\ [][NextDijkstra]_vars


(***************************************************************************)
(* The visibility graph on its own, over the spatial index of 5 mm cells   *)
(* its caller builds: the small boards above, and lattices of small pads   *)
(* with fewer corners than the vertex limit, somewhat more, and twice as   *)
(* many.  The key vertices on their own: outlines with one or two corners  *)
(* that move from a dent over a straight run to a bulge, and triangles     *)
(* with a spike, each outline from every one of its corners on.            *)
(***************************************************************************)
GetKeyVertices ==
    /\ "polygon" \in DOMAIN input
    /\ call' = [op |-> "_get_key_vertices", polygon |-> input.polygon]
    /\ ret' = [vertices |-> _get_key_vertices(input.polygon,
                                              input.max_vertices_per_polygon,
                                              input.vector_order)]
    /\ UNCHANGED <<cfgVars, input, pathVars, creepage_stats, boardVars, countVars>>

BuildVisibilityGraph ==
    /\ "start" \in DOMAIN input
    /\ spatial_index # NoIndex
    /\ \E out \in {_build_visibility_graph(input.start, input.goal, input.obstacles,
                                            spatial_index, input.vector_order)} :
           /\ call' = [op |-> "_build_visibility_graph", start |-> input.start,
                       goal |-> input.goal]
           /\ ret' = out
           /\ visibility_graph' = out
    /\ UNCHANGED <<cfgVars, input, spatial_index, creepage_stats, boardVars, countVars>>

LatticeSizes == {7, 8, 10}

VisibilityInputs ==
    {[start |-> a, goal |-> b, obstacles |-> o, vector_order |-> v] :
        a \in PathStarts, b \in PathGoals,
        o \in {<<>>, <<SmallPad>>, <<Wall>>, <<Wall, SmallPad>>},
        v \in VectorOrders}
    \cup
    {[start |-> Pt(0, 0), goal |-> Pt(20, 9), obstacles |-> Lattice(n),
      vector_order |-> "norm"] : n \in LatticeSizes}

Rotated(s, n) == [i \in DOMAIN s |-> s[((i + n - 1) % Len(s)) + 1]]

Outlines ==
    {<<Pt(0, 0), Pt(a, b), Pt(4, 0), Pt(4, 4), Pt(0, 4)>> :
        a \in 1..3, b \in (0 - 2)..2}
    \cup
    {<<Pt(0, 0), Pt(a, b), Pt(4, 0), Pt(4, 4), Pt(c, 4 + d), Pt(0, 4)>> :
        a \in {1, 2}, b \in (0 - 1)..1, c \in {2, 3}, d \in (0 - 1)..1}
    \cup
    {<<Pt(0, 0), Pt(8, h), Pt(8, 0)>> : h \in {1, 4, 5, 8}}

KeyVertexInputs ==
    {[polygon |-> Rotated(o, n), max_vertices_per_polygon |-> 3, vector_order |-> v] :
        o \in Outlines, n \in 0..5, v \in VectorOrders}

InitVisibility ==
    /\ input \in VisibilityInputs \cup KeyVertexInputs
    /\ config = <<>>
    /\ board = NoBoard
    /\ domain_map = <<>>
    /\ standard_params = _parse_standard_params(config)
    /\ isolation_requirements = <<>>
    /\ call = NoCall
    /\ ret = NoRet
    /\ spatial_index = IF "obstacles" \in DOMAIN input
                       THEN ObstacleSpatialIndex(input.obstacles, 5)
                       ELSE NoIndex
    /\ visibility_graph = NoGraph
    /\ creepage_stats = NoStats
    /\ NoViolations

NextVisibility == BuildVisibilityGraph \/ GetKeyVertices

SpecVisibility == InitVisibility /\ [][NextVisibility]_vars

IsPathCall == call.op = "_visibility_graph_path"

IsCalculateCreepageCall == call.op = "_calculate_creepage"

PathStart == call.start_pad.position

PathGoal == call.goal_pad.position

\* The obstacles of the model are axis-aligned rectangles: a segment runs
\* through the copper exactly when it runs through the bounding box.
SegmentCrossesObstacles(a, b, obstacles) ==
    \E k \in DOMAIN obstacles : SegmentPassesThroughBox(a, b, obstacles[k].bbox)

\* C2: a returned path is at least as long as the straight line from start
\* to goal (up to the rounding of one unit per segment), and none of its
\* segments crosses an obstacle of the full list.
C2_PathAvoidsObstacles ==
    (IsPathCall /\ ret # RetNone) =>
        /\ ret.length + Len(ret.nodes) - 1 >= get_distance(PathStart, PathGoal)
        /\ \A i \in 1..(Len(ret.nodes) - 1) :
              ~ SegmentCrossesObstacles(ret.nodes[i], ret.nodes[i + 1], input.obstacles)

\* The documented failure: the pad [7,8]x[5,6] blocks the line (4,0)-(10,8),
\* the 5 mm grid walk misses it, and the two-point path through the pad is
\* returned.
C2_CrossedPad ==
    /\ IsPathCall
    /\ input.obstacles = <<SmallPad>>
    /\ PathStart = Pt(4, 0) /\ PathGoal = Pt(10, 8)
    /\ visibility_graph # NoGraph
    /\ ret = DirectPath(Pt(4, 0), Pt(10, 8))

\* C3: when the line from start to goal crosses no obstacle, the two-point
\* path of straight-line length is returned and neither a spatial index nor
\* a visibility graph has been built, whatever the number of obstacles.
C3_ClearLineReturnsDirectPath ==
    (IsPathCall /\ ~ _path_crosses_obstacle(PathStart, PathGoal, input.obstacles)) =>
        /\ ret = [length |-> get_distance(PathStart, PathGoal),
                  nodes |-> <<PathStart, PathGoal>>]
        /\ spatial_index = NoIndex
        /\ visibility_graph = NoGraph

C3_Witness ==
    /\ IsPathCall
    /\ Len(input.obstacles) > GraphThreshold
    /\ ~ _path_crosses_obstacle(PathStart, PathGoal, input.obstacles)
    /\ ret.nodes = <<PathStart, PathGoal>>
    /\ ret.length = 2000
    /\ spatial_index = NoIndex

CreepageObstacleCount ==
    Len(_build_obstacle_map_for_layer(board, domain_map, config,
                                      input.domain_a, input.domain_b, input.layer))

SkippedEntry ==
    <<input.domain_a, input.domain_b, LayerName(input.layer), CreepageObstacleCount>>

CreepageStep ==
    ("pads_a" \in DOMAIN input /\ call'.op = "_calculate_creepage") =>
        IF CreepageObstacleCount > max_obstacles(config)
        THEN /\ ret' = RetNone
             /\ ~ call'.pathfinding
             /\ UNCHANGED pathVars
             /\ creepage_stats' =
                    [creepage_stats EXCEPT !.layers_skipped_obstacles =
                        Append(@, SkippedEntry)]
        ELSE /\ ret' # RetNone
             /\ call'.pathfinding
             /\ UNCHANGED creepage_stats

\* C10: a call of _calculate_creepage whose obstacle count exceeds
\* max_obstacles finds no path, returns None and appends exactly one entry
\* (domain_a, domain_b, layer name, count) to layers_skipped_obstacles; any
\* other call leaves the statistics alone.
C10_SkipRecordedOnce == [][CreepageStep]_vars

C10_Witness ==
    /\ IsCalculateCreepageCall
    /\ max_obstacles(config) = 2
    /\ ret = RetNone
    /\ creepage_stats.layers_skipped_obstacles =
           <<<<"MAINS", "SELV", <<"F", ".", "C", "u">>, 3>>>>

(***************************************************************************)
(* check: the whole verification run.  Strings that the code searches by   *)
(* substring (net class names, net name patterns) are spelled out as       *)
(* character sequences by Chars.  A dict is a sequence of <<key, value>>   *)
(* pairs in insertion order.                                               *)
(***************************************************************************)
Chars(str) ==
    CASE str = "" -> <<>>
      [] str = "L" -> <<"L">>
      [] str = "l" -> <<"l">>
      [] str = "5V" -> <<"5", "V">>
      [] str = "5v" -> <<"5", "v">>
      [] str = "GND" -> <<"G", "N", "D">>
      [] str = "AUX" -> <<"A", "U", "X">>
      [] str = "MAINS" -> <<"M", "A", "I", "N", "S">>
      [] str = "SELV" -> <<"S", "E", "L", "V">>
      [] str = "Default" -> <<"D", "e", "f", "a", "u", "l", "t">>
      [] str = "MAINS,Default" ->
             <<"M", "A", "I", "N", "S", ",", "D", "e", "f", "a", "u", "l", "t">>

\* str.upper()
Upper(s) ==
    [i \in DOMAIN s |->
        CASE s[i] = "l" -> "L" [] s[i] = "v" -> "V" [] s[i] = "e" -> "E"
          [] s[i] = "f" -> "F" [] s[i] = "a" -> "A" [] s[i] = "u" -> "U"
          [] s[i] = "t" -> "T" [] OTHER -> s[i]]

DictHas(d, key) == \E i \in DOMAIN d : d[i][1] = key

DictPut(d, key, value) ==
    IF DictHas(d, key)
    THEN [i \in DOMAIN d |-> IF d[i][1] = key THEN <<key, value>> ELSE d[i]]
    ELSE Append(d, <<key, value>>)

DictGet(d, key) == d[CHOOSE i \in DOMAIN d : d[i][1] = key][2]

RECURSIVE DictPutAll(_, _, _, _)
DictPutAll(d, keys, value, k) ==
    IF k > Len(keys) THEN d
    ELSE DictPutAll(DictPut(d, keys[k], value), keys, value, k + 1)

\* The dict as the mapping self.domain_map is read through.
DictMap(d) == [key \in {d[i][1] : i \in DOMAIN d} |-> DictGet(d, key)]

\* EMCAuditorPlugin.get_nets_by_class
get_nets_by_class(brd, class_name) ==
    LET matching == SelectSeq(brd.nets,
                        LAMBDA net : IsSubstring(Chars(class_name), Chars(net.class))
                                     /\ net.name # "")
    IN  [i \in DOMAIN matching |-> matching[i].name]

PatternMatches(net_patterns, net_name) ==
    \E p \in DOMAIN net_patterns :
        IsSubstring(Upper(Chars(net_patterns[p])), Upper(Chars(net_name)))

RECURSIVE ParseDomains(_, _, _, _)
ParseDomains(voltage_domains, k, brd, dmap) ==
    IF k > Len(voltage_domains) THEN dmap
    ELSE LET domain_config == voltage_domains[k]
             domain_name == CfgGet(domain_config, "name", "Unknown")
             Info(source) ==
                 [domain_name |-> domain_name,
                  voltage_rms |-> CfgGet(domain_config, "voltage_rms", 0),
                  requires_reinforced_insulation |->
                      CfgGet(domain_config, "requires_reinforced_insulation", FALSE),
                  source |-> source]
             net_patterns == CfgGet(domain_config, "net_patterns", <<>>)
             Assign(nets_in_class) ==
                 IF nets_in_class # <<>>
                 THEN DictPutAll(dmap, nets_in_class, Info("net_class"), 1)
                 ELSE LET matched == SelectSeq(brd.nets,
                                       LAMBDA net : /\ net.name # ""
                                                    /\ ~ DictHas(dmap, net.name)
                                                    /\ PatternMatches(net_patterns,
                                                                      net.name))
                      IN  DictPutAll(dmap, [i \in DOMAIN matched |-> matched[i].name],
                                     Info("pattern"), 1)
         IN  ParseDomains(voltage_domains, k + 1, brd,
                          Assign(get_nets_by_class(brd, domain_name)))

_parse_voltage_domains(cfg, brd) ==
    ParseDomains(CfgGet(cfg, "voltage_domains", <<>>), 1, brd, <<>>)

\* The domain names in the order features_by_domain first holds them.
RECURSIVE DomainOrder(_, _, _)
DomainOrder(dmap, k, names) ==
    IF k > Len(dmap) THEN names
    ELSE DomainOrder(dmap, k + 1,
             IF \E i \in DOMAIN names : names[i] = dmap[k][2].domain_name
             THEN names ELSE Append(names, dmap[k][2].domain_name))

_get_copper_features_by_domain(brd, dmap) ==
    LET domain_names == DomainOrder(dmap, 1, <<>>)
        FeaturesOf(domain_name) ==
            LET pads == SelectSeq(brd.pads,
                            LAMBDA pad : /\ DictHas(dmap, pad.net)
                                         /\ DictGet(dmap, pad.net).domain_name
                                                = domain_name)
            IN  [i \in DOMAIN pads |->
                    Feature(pads[i], pads[i].net,
                            DictGet(dmap, pads[i].net).voltage_rms,
                            DictGet(dmap, pads[i].net).requires_reinforced_insulation)]
    IN  [i \in DOMAIN domain_names |-> <<domain_names[i], FeaturesOf(domain_names[i])>>]

\* actual_mm < required_mm for a squared distance in mm^2 and a required
\* distance in hundredths of a millimetre.
ClearanceBelow(distance_sq, required) ==
    10000 * distance_sq.n * required.d * required.d
        < required.n * required.n * distance_sq.d

\* actual_creepage_mm < required_creepage_mm, the length in hundredths.
CreepageBelow(length, required) == length * required.d < required.n

\* self.violation_count += 1 and the group created and drawn with that number.
CreateMarker(st, check_type, domain_a, domain_b) ==
    [st EXCEPT !.violation_count = @ + 1,
               !.markers = Append(@, [check_type |-> check_type,
                                      identifier |-> <<domain_a, domain_b>>,
                                      number |-> st.violation_count + 1])]

_create_clearance_violation_marker(st, domain_a, domain_b) ==
    CreateMarker(st, "Clearance", domain_a, domain_b)

_create_creepage_violation_marker(st, domain_a, domain_b) ==
    CreateMarker(st, "Creepage", domain_a, domain_b)

\* The copper layers of the pads, each once, in order of first appearance.
RECURSIVE LayersToCheck(_, _, _)
LayersToCheck(pads, k, checked) ==
    IF k > Len(pads) THEN checked
    ELSE LayersToCheck(pads, k + 1,
             IF (\A i \in DOMAIN checked : checked[i] # pads[k].layer)
                /\ IsSubstring(<<".", "C", "u">>, LayerName(pads[k].layer))
             THEN Append(checked, pads[k].layer) ELSE checked)

\* Lines 304-324: a finite creepage is recorded and compared.
JudgeCreepage(s, domain_a, domain_b, layer_name, voltage_a, voltage_b, actual, required) ==
    LET calculated ==
            [s EXCEPT !.creepage_stats.layers_calculated =
                          Append(@, <<domain_a, domain_b, layer_name, actual, required>>),
                      !.config = ConfigAfterCreepageLookup(s.config, s.standard_params,
                                     s.isolation_requirements,
                                     domain_a, domain_b, voltage_a, voltage_b)]
    IN  IF CreepageBelow(actual, required)
        THEN [_create_creepage_violation_marker(calculated, domain_a, domain_b)
                 EXCEPT !.creepage_violations = @ + 1]
        ELSE calculated

\* A checker that treated a missing path as a violation.
HandleCreepageResult_InfViolates(s, domain_a, domain_b, layer_name, first_a, first_b, out) ==
    LET after == [s EXCEPT !.creepage_stats = out.stats]
    IN  IF out.result = RetNone THEN after
        ELSE IF out.result.min_creepage = InfLength
        THEN [_create_creepage_violation_marker(
                  [after EXCEPT !.creepage_stats.layers_no_path =
                                    Append(@, <<domain_a, domain_b, layer_name>>)],
                  domain_a, domain_b)
                 EXCEPT !.creepage_violations = @ + 1]
        ELSE JudgeCreepage(after, domain_a, domain_b, layer_name,
                           first_a.voltage, first_b.voltage, out.result.min_creepage,
                           _lookup_required_creepage(s.config, s.standard_params,
                               s.isolation_requirements, domain_a, domain_b,
                               first_a.voltage, first_b.voltage,
                               first_a.reinforced, first_b.reinforced))

\* Lines 296-326: what check does with the result of _calculate_creepage.
HandleCreepageResult(s, domain_a, domain_b, layer_name, first_a, first_b, out) ==
    LET after == [s EXCEPT !.creepage_stats = out.stats,
                           !.spatial_index =
                               IF out.index = NoIndex THEN @ ELSE out.index,
                           !.visibility_graph =
                               IF out.graph = NoGraph THEN @ ELSE out.graph]
    IN  IF out.result = RetNone THEN after
        ELSE IF out.result.min_creepage = InfLength
        THEN [after EXCEPT !.creepage_stats.layers_no_path =
                               Append(@, <<domain_a, domain_b, layer_name>>)]
        ELSE JudgeCreepage(after, domain_a, domain_b, layer_name,
                           first_a.voltage, first_b.voltage, out.result.min_creepage,
                           _lookup_required_creepage(s.config, s.standard_params,
                               s.isolation_requirements, domain_a, domain_b,
                               first_a.voltage, first_b.voltage,
                               first_a.reinforced, first_b.reinforced))

\* Lines 289-326: creepage of one pair on one layer.  attempts logs the
\* "Layer:" line of the attempt.
CheckCreepageOnLayer(st, brd, dmap, domain_a, domain_b, features_a, features_b, layer, order) ==
    HandleCreepageResult(
        [st EXCEPT !.attempts = Append(@, <<domain_a, domain_b, LayerName(layer)>>)],
        domain_a, domain_b, LayerName(layer), features_a[1], features_b[1],
        _calculate_creepage(brd, dmap, st.config, st.creepage_stats, domain_a, domain_b,
                            [i \in DOMAIN features_a |-> features_a[i].pad],
                            [i \in DOMAIN features_b |-> features_b[i].pad],
                            layer, order))

RECURSIVE CheckCreepageLayers(_, _, _, _, _, _, _, _, _, _)
CheckCreepageLayers(st, brd, dmap, domain_a, domain_b, features_a, features_b, layers, k, order) ==
    IF k > Len(layers) THEN st
    ELSE CheckCreepageLayers(
             CheckCreepageOnLayer(st, brd, dmap, domain_a, domain_b,
                                  features_a, features_b, layers[k], order),
             brd, dmap, domain_a, domain_b, features_a, features_b, layers, k + 1, order)

\* Lines 270-326: step 6, creepage of the pair when enabled.
CheckCreepage(s, brd, dmap, domain_a, domain_b, features_a, features_b, order) ==
    IF CfgGet(s.config, "check_creepage", FALSE)
    THEN CheckCreepageLayers(
             [s EXCEPT !.creepage_stats.pairs_checked = @ + 1],
             brd, dmap, domain_a, domain_b, features_a, features_b,
             LayersToCheck([i \in DOMAIN features_a |-> features_a[i].pad]
                           \o [i \in DOMAIN features_b |-> features_b[i].pad],
                           1, <<>>),
             1, order)
    ELSE s

\* Lines 261-268: the clearance comparison.
CheckClearance(s, domain_a, domain_b, result, required) ==
    IF ClearanceBelow(result.distance_sq, required.mm)
    THEN [_create_clearance_violation_marker(s, domain_a, domain_b)
             EXCEPT !.clearance_violations = @ + 1]
    ELSE s

\* Lines 241-326: the pair once its clearance has been calculated.
CheckCalculatedPair(s, brd, dmap, domain_a, domain_b, features_a, features_b, order, result) ==
    IF result = RetNone THEN s
    ELSE CheckCreepage(
             CheckClearance(s, domain_a, domain_b, result,
                 _lookup_required_clearance(s.config, s.standard_params,
                     s.isolation_requirements, domain_a, domain_b,
                     features_a[1].voltage, features_b[1].voltage,
                     features_a[1].reinforced, features_b[1].reinforced,
                     result.layer_a, result.layer_b)),
             brd, dmap, domain_a, domain_b, features_a, features_b, order)

\* Lines 225-326: one domain pair.  pairs logs the "Checking:" line.
CheckPair(st, brd, dmap, domain_a, domain_b, features_a, features_b, order) ==
    IF features_a = <<>> \/ features_b = <<>>
    THEN [st EXCEPT !.pairs = Append(@, <<domain_a, domain_b>>)]
    ELSE CheckCalculatedPair([st EXCEPT !.pairs = Append(@, <<domain_a, domain_b>>)],
                             brd, dmap, domain_a, domain_b, features_a, features_b,
                             order, _calculate_clearance(features_a, features_b))

\* Nested loops that skipped only the self-pairs.
DomainPairs_BothOrders(n) ==
    LET all == [k \in 1..(n * n) |-> <<((k - 1) \div n) + 1, ((k - 1) % n) + 1>>]
    IN  SelectSeq(all, LAMBDA p : p[1] # p[2])

\* The pairs (i, j), i < j, in the order of the two nested loops.
DomainPairs(n) ==
    LET all == [k \in 1..(n * n) |-> <<((k - 1) \div n) + 1, ((k - 1) % n) + 1>>]
    IN  SelectSeq(all, LAMBDA p : p[1] < p[2])

RECURSIVE CheckPairs(_, _, _, _, _, _, _)
CheckPairs(st, brd, dmap, features_by_domain, pairs, k, order) ==
    IF k > Len(pairs) THEN st
    ELSE CheckPairs(
             CheckPair(st, brd, dmap,
                       features_by_domain[pairs[k][1]][1],
                       features_by_domain[pairs[k][2]][1],
                       features_by_domain[pairs[k][1]][2],
                       features_by_domain[pairs[k][2]][2], order),
             brd, dmap, features_by_domain, pairs, k + 1, order)

\* The checker's fields and the log of the run, as one record.
CheckerState ==
    [config |-> config, standard_params |-> standard_params,
     isolation_requirements |-> isolation_requirements,
     creepage_stats |-> creepage_stats, spatial_index |-> spatial_index,
     visibility_graph |-> visibility_graph, violation_count |-> violation_count,
     clearance_violations |-> clearance_violations,
     creepage_violations |-> creepage_violations, markers |-> markers,
     pairs |-> <<>>, attempts |-> <<>>]

\* Lines 332-336: return self.violation_count.
CheckDone(after, dmap) ==
    [state |-> after, domain_map |-> dmap, returned |-> after.violation_count]

\* Lines 203-326: steps 3 to 6.
CheckDomains(s, brd, dmap, features_by_domain, order) ==
    CheckDone(CheckPairs([s EXCEPT !.isolation_requirements =
                             CfgGet(s.config, "isolation_requirements", <<>>)],
                         brd, DictMap(dmap), features_by_domain,
                         DomainPairs(Len(features_by_domain)), 1, order),
              dmap)

\* Lines 195-201: no domain, no check.
CheckParsed(s, brd, dmap, order) ==
    IF dmap = <<>>
    THEN [state |-> s, domain_map |-> dmap, returned |-> 0]
    ELSE CheckDomains(s, brd, dmap, _get_copper_features_by_domain(brd, dmap), order)

check(st, brd, order) ==
    CheckParsed([st EXCEPT !.standard_params = _parse_standard_params(st.config)],
                brd, _parse_voltage_domains(st.config, brd), order)

\* The plugin constructs a checker for each run and calls check once.
Check ==
    /\ "check" \in DOMAIN input
    /\ call = NoCall
    /\ \E out \in {check(CheckerState, board, input.vector_order)} :
           /\ call' = [op |-> "check", pairs |-> out.state.pairs,
                       attempts |-> out.state.attempts]
           /\ ret' = [violation_count |-> out.returned]
           /\ config' = out.state.config
           /\ standard_params' = out.state.standard_params
           /\ isolation_requirements' = out.state.isolation_requirements
           /\ creepage_stats' = out.state.creepage_stats
           /\ spatial_index' = out.state.spatial_index
           /\ visibility_graph' = out.state.visibility_graph
           /\ violation_count' = out.state.violation_count
           /\ clearance_violations' = out.state.clearance_violations
           /\ creepage_violations' = out.state.creepage_violations
           /\ markers' = out.state.markers
           /\ domain_map' = DictMap(out.domain_map)
    /\ UNCHANGED <<input, board>>


(***************************************************************************)
(* Whole runs: boards of a mains pad, low-voltage pads and foreign copper, *)
(* nets assigned to domains by net class or by name pattern, with and      *)
(* without creepage checking, isolation requirements and obstacle caps.    *)
(***************************************************************************)
BoardNets ==
    {<<[name |-> "", class |-> "Default"], [name |-> "5V", class |-> c5],
       [name |-> "AUX", class |-> "AUX"], [name |-> "GND", class |-> "Default"],
       [name |-> "L", class |-> cL]>> :
        c5 \in {"SELV", "Default"}, cL \in {"MAINS,Default", "Default"}}

WallPad == NetPad(Pt(10, 5), Pt(2, 60), "F_Cu", "GND")

CheckPads ==
    {<<MainsPad, SelvPads[1]>>,
     <<MainsPad, SelvPads[1], WallPad>>,
     <<MainsPad, SelvPads[1], WallPad, NetPad(Pt(20, 5), Pt(2, 2), "B_Cu", "5V")>>,
     <<MainsPad>> \o SelvPads \o ForeignPads,
     <<MainsPad, NetPad(Pt(20, 5), Pt(2, 2), "B_Cu", "5V"), SelvPads[2]>>,
     <<SelvPads[1]>>}

CheckBoards ==
    {[pads |-> p, tracks |-> t, zones |-> <<>>, nets |-> n] :
        p \in CheckPads,
        t \in {<<>>, <<Track(Pt(5, 0), Pt(15, 0), 2, "F_Cu", "GND")>>},
        n \in BoardNets}

MainsDomain ==
    [name |-> "MAINS", voltage_rms |-> 230, net_patterns |-> <<"l">>,
     requires_reinforced_insulation |-> TRUE]

SelvDomain == [name |-> "SELV", voltage_rms |-> 5, net_patterns |-> <<"5v">>]

AuxDomain == [name |-> "AUX", voltage_rms |-> 12]

VoltageDomains ==
    {<<>>, <<MainsDomain, SelvDomain>>, <<SelvDomain, MainsDomain>>,
     <<MainsDomain, SelvDomain, AuxDomain>>}

CheckRequirements ==
    {<<>>,
     <<[domain_a |-> "MAINS", domain_b |-> "SELV",
        min_clearance_mm |-> RatInt(300), min_creepage_mm |-> RatInt(600)]>>,
     <<[domain_a |-> "SELV", domain_b |-> "MAINS",
        min_clearance_mm |-> RatInt(1900), min_creepage_mm |-> RatInt(2500)]>>}

CheckConfigs ==
    {WithKey(WithKey(WithKey(WithKey(<<>>,
         "voltage_domains", <<vd>>),
         "isolation_requirements", <<reqs>>),
         "check_creepage", creepage),
         "max_obstacles", cap) :
        vd \in VoltageDomains, reqs \in CheckRequirements,
        creepage \in {<<>>, <<TRUE>>}, cap \in {<<>>, <<0>>}}

FeatureInputs ==
    {[features_a |-> a, features_b |-> b] :
        a \in FeatureLists(PadsA), b \in FeatureLists(PadsB)}

InitCheck ==
    /\ \/ /\ config \in CheckConfigs
          /\ input \in {[check |-> TRUE, vector_order |-> v] : v \in VectorOrders}
          /\ board \in CheckBoards
       \/ /\ config = <<>>
          /\ input \in FeatureInputs
          /\ board = NoBoard
    /\ standard_params = <<>>
    /\ isolation_requirements = <<>>
    /\ call = NoCall
    /\ ret = NoRet
    /\ spatial_index = NoIndex
    /\ visibility_graph = NoGraph
    /\ creepage_stats = NoStats
    /\ NoViolations
    /\ domain_map = <<>>

NextCheck == Check \/ CalculateClearance

SpecCheck == InitCheck /\ [][NextCheck]_vars

(***************************************************************************)
(* Properties of whole runs.                                               *)
(***************************************************************************)
CheckRan == call # NoCall /\ call.op = "check"

CreepageMarkers == {k \in DOMAIN markers : markers[k].check_type = "Creepage"}

ClearanceMarkers == {k \in DOMAIN markers : markers[k].check_type = "Clearance"}

\* The calculated entries whose length is below the required creepage.
CalculatedBelow ==
    {i \in DOMAIN creepage_stats.layers_calculated :
        creepage_stats.layers_calculated[i][4] * creepage_stats.layers_calculated[i][5].d
            < creepage_stats.layers_calculated[i][5].n}

\* C11 as stated: after check, every pair and layer recorded as having no
\* path has a creepage violation registered for that pair.
C11_NoPathIsViolation ==
    CheckRan =>
        \A i \in DOMAIN creepage_stats.layers_no_path :
            \E k \in CreepageMarkers :
                markers[k].identifier = <<creepage_stats.layers_no_path[i][1],
                                          creepage_stats.layers_no_path[i][2]>>

\* C11: after check, a pair and layer with no path is recorded in
\* layers_no_path and registers no violation: the creepage violations are
\* exactly the calculated entries whose finite length is below the required
\* creepage, and the returned count is that number plus the clearance
\* violations.
C11_NoPathRecordedNotViolation ==
    CheckRan =>
        /\ creepage_violations = Cardinality(CalculatedBelow)
        /\ Cardinality(CreepageMarkers) = Cardinality(CalculatedBelow)
        /\ clearance_violations = Cardinality(ClearanceMarkers)
        /\ ret.violation_count = clearance_violations + creepage_violations
        /\ \A k \in CreepageMarkers :
               \E i \in CalculatedBelow :
                   markers[k].identifier = <<creepage_stats.layers_calculated[i][1],
                                             creepage_stats.layers_calculated[i][2]>>

\* A run in which a layer had no path and nothing was registered.
C11_Witness ==
    /\ CheckRan
    /\ creepage_stats.layers_no_path # <<>>
    /\ creepage_violations = 0
    /\ markers = <<>>
    /\ ret.violation_count = 0

\* The entries of a statistics list recorded for a pair and layer.
Recorded(list, attempt) ==
    {i \in DOMAIN list : <<list[i][1], list[i][2], list[i][3]>> = attempt}

Outcomes(attempt) ==
    Cardinality(Recorded(creepage_stats.layers_skipped_obstacles, attempt))
        + Cardinality(Recorded(creepage_stats.layers_no_path, attempt))
        + Cardinality(Recorded(creepage_stats.layers_calculated, attempt))

\* C12: after check, every pair and layer whose creepage was attempted has
\* exactly one entry among layers_skipped_obstacles, layers_no_path and
\* layers_calculated, the three lists hold nothing else, and every
\* calculated entry has a finite length.
C12_ExactlyOneOutcome ==
    CheckRan =>
        /\ \A i \in DOMAIN call.attempts : Outcomes(call.attempts[i]) = 1
        /\ Len(creepage_stats.layers_skipped_obstacles)
               + Len(creepage_stats.layers_no_path)
               + Len(creepage_stats.layers_calculated) = Len(call.attempts)
        /\ \A i \in DOMAIN creepage_stats.layers_calculated :
               creepage_stats.layers_calculated[i][4] # InfLength

\* A run of two attempts with different outcomes: one layer calculated and
\* the other without a path.
C12_Witness ==
    /\ CheckRan
    /\ Len(call.attempts) = 2
    /\ Len(creepage_stats.layers_calculated) = 1
    /\ Len(creepage_stats.layers_no_path) = 1

\* A run whose attempt was skipped for its obstacle count.
C12_WitnessSkipped ==
    /\ CheckRan
    /\ call.attempts # <<>>
    /\ Len(creepage_stats.layers_skipped_obstacles) = Len(call.attempts)

AStarRan == call.op = "_astar_surface_path_fast"

\* C13: _astar_surface_path_fast returns after at most 100 iterations of
\* its main loop; it returns None only with the limit reached or the open
\* set empty, and any path it returns leads from the start to within 0.1 mm
\* of the goal.
C13_AStarIterationLimit ==
    AStarRan =>
        /\ call.iterations <= 100
        /\ ret = RetNone => (call.iterations = 100 \/ call.open_set = 0)
        /\ ret # RetNone =>
               /\ ret.nodes[1] = input.start_pad.position
               /\ 100 * DistSq(ret.nodes[Len(ret.nodes)], input.goal_pad.position) < 1

\* The search gave up at the limit with nodes still waiting in the open set.
C13_Witness ==
    /\ AStarRan
    /\ ret = RetNone
    /\ call.iterations = 100
    /\ call.open_set > 0

\* The search ended before the limit because its open set ran empty.
C13_WitnessEmptied ==
    /\ AStarRan
    /\ ret = RetNone
    /\ call.iterations < 100
    /\ call.open_set = 0

\* The search found a way round an obstacle.
C13_WitnessFound ==
    /\ AStarRan
    /\ ret # RetNone
    /\ call.iterations > 1

\* p lies on the closed segment from a to b.
OnClosedSegment(p, a, b) ==
    /\ (p.x - a.x) * (b.y - a.y) = (p.y - a.y) * (b.x - a.x)
    /\ (a.x <= p.x /\ p.x <= b.x) \/ (b.x <= p.x /\ p.x <= a.x)
    /\ (a.y <= p.y /\ p.y <= b.y) \/ (b.y <= p.y /\ p.y <= a.y)

DistanceRan == call.op = "_point_to_segment_distance"

Orientation(a, b, c) == (b.x - a.x) * (c.y - a.y) - (b.y - a.y) * (c.x - a.x)

\* The open segments cross in one point interior to both.
ProperlyCross(p1, p2, p3, p4) ==
    /\ Orientation(p3, p4, p1) * Orientation(p3, p4, p2) < 0
    /\ Orientation(p1, p2, p3) * Orientation(p1, p2, p4) < 0

IntersectRan == call.op = "_segments_intersect"

\* C15: _segments_intersect is true exactly when the two open segments
\* properly cross, and false for every collinear or touching configuration.
C15_TrueIffProperCrossing ==
    IntersectRan =>
        (ret.intersect <=> ProperlyCross(call.p1, call.p2, call.p3, call.p4))

\* An end of one segment in the interior of the other, reported as an
\* intersection.
C15_Witness ==
    /\ IntersectRan
    /\ ret.intersect
    /\ Orientation(call.p3, call.p4, call.p1) = 0
    /\ OnClosedSegment(call.p1, call.p3, call.p4)
    /\ call.p1 # call.p3 /\ call.p1 # call.p4

\* What does hold: segments that properly cross are reported.
C15_ProperCrossingReported ==
    IntersectRan =>
        (ProperlyCross(call.p1, call.p2, call.p3, call.p4) => ret.intersect)

\* No pad of the board is on a net of the domain.
EmptyDomain(domain_name) ==
    ~ \E i \in DOMAIN board.pads :
          /\ board.pads[i].net \in DOMAIN domain_map
          /\ domain_map[board.pads[i].net].domain_name = domain_name

EmptyPair(pair) == EmptyDomain(pair[1]) \/ EmptyDomain(pair[2])

PairOf(entry) == <<entry[1], entry[2]>>

\* The statistics entries, attempts and markers of a domain pair.
TracesOfPair(pair) ==
    Cardinality({i \in DOMAIN markers : markers[i].identifier = pair})
    + Cardinality({i \in DOMAIN call.attempts : PairOf(call.attempts[i]) = pair})
    + Cardinality({i \in DOMAIN creepage_stats.layers_skipped_obstacles :
                      PairOf(creepage_stats.layers_skipped_obstacles[i]) = pair})
    + Cardinality({i \in DOMAIN creepage_stats.layers_no_path :
                      PairOf(creepage_stats.layers_no_path[i]) = pair})
    + Cardinality({i \in DOMAIN creepage_stats.layers_calculated :
                      PairOf(creepage_stats.layers_calculated[i]) = pair})

\* C16: _calculate_clearance returns None when either feature list is
\* empty; and after check, a domain pair one of whose domains has no pad on
\* the board has no marker, no creepage attempt and no statistics entry, is
\* not counted in pairs_checked, and when every pair examined is such a pair
\* the counters and the statistics are what they were before the run.
C16_EmptyDomainSkipped ==
    /\ (call.op = "_calculate_clearance"
            /\ (call.features_a = <<>> \/ call.features_b = <<>>))
           => ret = RetNone
    /\ CheckRan =>
           /\ \A i \in DOMAIN call.pairs :
                  EmptyPair(call.pairs[i]) => TracesOfPair(call.pairs[i]) = 0
           /\ creepage_stats.pairs_checked
                  <= Cardinality({i \in DOMAIN call.pairs : ~ EmptyPair(call.pairs[i])})
           /\ (\A i \in DOMAIN call.pairs : EmptyPair(call.pairs[i]))
                  => /\ violation_count = 0
                     /\ clearance_violations = 0
                     /\ creepage_violations = 0
                     /\ markers = <<>>
                     /\ creepage_stats = NoStats

\* A run over three domains of which one has no pad: its two pairs are
\* skipped while the third pair is checked and violates.
C16_Witness ==
    /\ CheckRan
    /\ Len(call.pairs) = 3
    /\ Cardinality({i \in DOMAIN call.pairs : EmptyPair(call.pairs[i])}) = 2
    /\ violation_count > 0
    /\ creepage_stats.pairs_checked = 1

\* _calculate_clearance was called with an empty list and returned None.
C16_WitnessNone ==
    /\ call.op = "_calculate_clearance"
    /\ call.features_a # <<>>
    /\ call.features_b = <<>>
    /\ ret = RetNone

CreepageTables == CfgGet(config, "iec60664_creepage_table", <<>>)

\* The sub-table is the one for the configured material group and
\* pollution degree.
EqualSubTable(table) ==
    /\ CfgGet(table, "material", <<>>) = standard_params.material_group
    /\ CfgGet(table, "pollution", <<>>) = DigitStr(standard_params.pollution_degree)

CreepageInterpolated == call.op = "_interpolate_creepage_table"

\* C17: the sub-table over which _interpolate_creepage_table interpolates
\* has the configured material group and the configured pollution degree,
\* whatever the order of the sub-tables.
C17_SelectsEqualSubTable ==
    CreepageInterpolated =>
        \A i \in DOMAIN CreepageTables :
            i = SelectedCreepageTable(config, standard_params)
                => EqualSubTable(CreepageTables[i])

\* The sub-table of group IIIa stands first and is used for group II or I,
\* although the sub-table of the configured group follows and gives another
\* distance.
C17_Witness ==
    /\ CreepageInterpolated
    /\ Len(CreepageTables) = 2
    /\ SelectedCreepageTable(config, standard_params) = 1
    /\ ~ EqualSubTable(CreepageTables[1])
    /\ EqualSubTable(CreepageTables[2])
    /\ CreepageTables[2].voltages # <<>>
    /\ ret.value # _interpolate_creepage_table(
                       [config EXCEPT !["iec60664_creepage_table"] = <<@[2]>>],
                       standard_params, call.voltage_rms)

\* What does hold: the sub-table used is the first whose material text
\* contains the configured group and whose pollution text contains the
\* configured degree.
C17_SelectsFirstContaining ==
    CreepageInterpolated =>
        \A i \in DOMAIN CreepageTables :
            i = SelectedCreepageTable(config, standard_params)
                => /\ IsSubstring(standard_params.material_group,
                                  CreepageTables[i].material)
                   /\ \A j \in 1..(i - 1) :
                          ~ (/\ IsSubstring(standard_params.material_group,
                                            CreepageTables[j].material)
                             /\ IsSubstring(DigitStr(standard_params.pollution_degree),
                                            CreepageTables[j].pollution))

\* The sub-tables for the configured group and degree, and those whose
\* texts contain them.
EqualSubTables == {i \in DOMAIN CreepageTables : EqualSubTable(CreepageTables[i])}

ContainingSubTables ==
    {i \in DOMAIN CreepageTables :
        /\ IsSubstring(standard_params.material_group,
                       CfgGet(CreepageTables[i], "material", <<>>))
        /\ IsSubstring(DigitStr(standard_params.pollution_degree),
                       CfgGet(CreepageTables[i], "pollution", <<>>))}

\* No sub-table of the set, or the first of them without entries.
MissingAmong(indices) ==
    \/ indices = {}
    \/ \E i \in indices :
           /\ \A j \in indices : i <= j
           /\ CfgGet(CreepageTables[i], "voltages", <<>>) = <<>>

ClearanceTimesOneAndAHalf ==
    RatMul(_interpolate_clearance_table(config, call.voltage_rms), Rat(3, 2))

\* C18: with no clearance table entries _interpolate_clearance_table
\* returns 0.13 mm for every voltage, and with no sub-table for the
\* configured material group and pollution degree, or with that sub-table
\* empty, _interpolate_creepage_table returns 1.5 times the interpolated
\* clearance.
C18_MissingTableFallback ==
    /\ (call.op = "_interpolate_clearance_table"
            /\ Flatten(CfgGet(config, "iec60664_clearance_table", <<>>)) = <<>>)
           => ret.value = Rat(13, 1)
    /\ (CreepageInterpolated /\ MissingAmong(EqualSubTables))
           => ret.value = ClearanceTimesOneAndAHalf

\* The sub-table of the configured group is missing, and the distance comes
\* from the sub-table of another group instead of the fallback.
C18_Witness ==
    /\ CreepageInterpolated
    /\ EqualSubTables = {}
    /\ CreepageTables # <<>>
    /\ ret.value # ClearanceTimesOneAndAHalf

\* What does hold: the fallbacks apply when no sub-table contains the
\* configured group and degree in its texts, or the first that does is
\* empty.
C18_FallbackWhenNoneContains ==
    /\ (call.op = "_interpolate_clearance_table"
            /\ Flatten(CfgGet(config, "iec60664_clearance_table", <<>>)) = <<>>)
           => ret.value = Rat(13, 1)
    /\ (CreepageInterpolated /\ MissingAmong(ContainingSubTables))
           => ret.value = ClearanceTimesOneAndAHalf

\* The fallback at work: sub-tables are configured, none is for the
\* configured group, and the result is 1.5 times the clearance.
C18_WitnessFallback ==
    /\ CreepageInterpolated
    /\ CreepageTables # <<>>
    /\ ContainingSubTables = {}
    /\ Flatten(CfgGet(config, "iec60664_clearance_table", <<>>)) # <<>>
    /\ call.voltage_rms > 0
    /\ ret.value = ClearanceTimesOneAndAHalf

ObstacleMapBuilt == call.op = "_build_obstacle_map_for_layer"

DomainNets == NetsOfDomain(domain_map, call.domain_a)
              \cup NetsOfDomain(domain_map, call.domain_b)

DomainPadsOnLayer(domain) ==
    SelectSeq(board.pads, LAMBDA pad : /\ pad.layer = call.layer
                                       /\ pad.net \in NetsOfDomain(domain_map, domain))

\* The box around the closest pair of domain pads on the layer, widened by
\* the margin.
SearchWindow ==
    LET closest == ClosestPadPair(DomainPadsOnLayer(call.domain_a),
                                  DomainPadsOnLayer(call.domain_b))
        margin == CfgGet(config, "obstacle_search_margin_mm", 20)
    IN  Box(Min2(closest[1].x, closest[2].x) - margin,
            Min2(closest[1].y, closest[2].y) - margin,
            Max2(closest[1].x, closest[2].x) + margin,
            Max2(closest[1].y, closest[2].y) + margin)

HasWindow ==
    DomainPadsOnLayer(call.domain_a) # <<>> /\ DomainPadsOnLayer(call.domain_b) # <<>>

\* The copper, a rectangle or a rectangular outline, reaches into the window.
IntersectsWindow(polygon) ==
    HasWindow =>
        /\ PolyBBox(polygon).left <= SearchWindow.right
        /\ SearchWindow.left <= PolyBBox(polygon).right
        /\ PolyBBox(polygon).top <= SearchWindow.bottom
        /\ SearchWindow.top <= PolyBBox(polygon).bottom

ForeignOnLayer(item) ==
    item.layer = call.layer /\ item.net # "" /\ item.net \notin DomainNets

Listed(polygon, net, type) ==
    \E k \in DOMAIN ret.obstacles :
        /\ ret.obstacles[k].polygon = polygon
        /\ ret.obstacles[k].net = net
        /\ ret.obstacles[k].type = type

\* No obstacle is copper of a net of either domain.
C19_NoDomainCopper ==
    ObstacleMapBuilt =>
        \A k \in DOMAIN ret.obstacles : ret.obstacles[k].net \notin DomainNets

\* C19: the obstacle list holds no copper of the nets of domain A or B, and
\* holds every pad, track and zone on the layer of any other named net
\* whose copper intersects the search window, a track with both ends
\* outside the window and a zone with its centre outside included.
C19_ObstaclesCoverWindow ==
    ObstacleMapBuilt =>
        /\ \A k \in DOMAIN ret.obstacles : ret.obstacles[k].net \notin DomainNets
        /\ \A i \in DOMAIN board.pads :
               (ForeignOnLayer(board.pads[i])
                    /\ IntersectsWindow(_get_pad_polygon(board.pads[i], call.layer)))
                   => Listed(_get_pad_polygon(board.pads[i], call.layer),
                             board.pads[i].net, "pad")
        /\ \A i \in DOMAIN board.tracks :
               (ForeignOnLayer(board.tracks[i])
                    /\ IntersectsWindow(TrackPolygon(board.tracks[i])))
                   => Listed(TrackPolygon(board.tracks[i]), board.tracks[i].net, "track")
        /\ \A i \in DOMAIN board.zones :
               (ForeignOnLayer(board.zones[i])
                    /\ IntersectsWindow(board.zones[i].outline))
                   => Listed(board.zones[i].outline, board.zones[i].net, "zone")

\* A foreign track runs across the window from one side to the other and
\* is not among the obstacles.
C19_Witness ==
    /\ ObstacleMapBuilt
    /\ HasWindow
    /\ \E i \in DOMAIN board.tracks :
           /\ ForeignOnLayer(board.tracks[i])
           /\ board.tracks[i].start.y < SearchWindow.top
           /\ board.tracks[i].end.y > SearchWindow.bottom
           /\ SearchWindow.left < board.tracks[i].start.x
           /\ board.tracks[i].start.x < SearchWindow.right
           /\ ~ Listed(TrackPolygon(board.tracks[i]), board.tracks[i].net, "track")

\* A foreign zone reaches into the window with the centre of its bounding
\* box outside and is not among the obstacles.
C19_WitnessZone ==
    /\ ObstacleMapBuilt
    /\ HasWindow
    /\ \E i \in DOMAIN board.zones :
           /\ ForeignOnLayer(board.zones[i])
           /\ IntersectsWindow(board.zones[i].outline)
           /\ ~ Listed(board.zones[i].outline, board.zones[i].net, "zone")

\* What does hold: foreign copper on the layer is listed when the pad's
\* position, an end of the track, or the centre of the zone's bounding box
\* is in the window, and whenever there is no window.
C19_ListedByPosition ==
    ObstacleMapBuilt =>
        LET Inside(pos) ==
                HasWindow =>
                    /\ SearchWindow.left <= pos.x /\ pos.x <= SearchWindow.right
                    /\ SearchWindow.top <= pos.y /\ pos.y <= SearchWindow.bottom
            Centre(box) ==
                Pt((box.left + box.right) \div 2, (box.top + box.bottom) \div 2)
        IN  /\ \A i \in DOMAIN board.pads :
                   ForeignOnLayer(board.pads[i])
                       => (Inside(board.pads[i].position)
                              <=> Listed(_get_pad_polygon(board.pads[i], call.layer),
                                         board.pads[i].net, "pad"))
            /\ \A i \in DOMAIN board.tracks :
                   ForeignOnLayer(board.tracks[i])
                       => ((Inside(board.tracks[i].start) \/ Inside(board.tracks[i].end))
                              <=> Listed(TrackPolygon(board.tracks[i]),
                                         board.tracks[i].net, "track"))
            /\ \A i \in DOMAIN board.zones :
                   ForeignOnLayer(board.zones[i])
                       => (Inside(Centre(PolyBBox(board.zones[i].outline)))
                              <=> Listed(board.zones[i].outline,
                                         board.zones[i].net, "zone"))

DijkstraRan == call.op = "_dijkstra"

\* The edges of the graph from a to b, and the least weight among them.
EdgesBetween(a, b) ==
    IF a \in DOMAIN input.graph
    THEN {i \in DOMAIN input.graph[a] : input.graph[a][i][1] = b}
    ELSE {}

LeastWeight(a, b) ==
    LET weights == {input.graph[a][i][2] : i \in EdgesBetween(a, b)}
    IN  CHOOSE w \in weights : \A v \in weights : w <= v

\* The walks from start to goal along edges of the graph, of up to as many
\* vertices as the graph has: every simple path is among them.
GraphWalks ==
    {p \in UNION {[1..k -> DOMAIN input.vertices] : k \in 1..Len(input.vertices)} :
        /\ p[1] = input.start_idx
        /\ p[Len(p)] = input.goal_idx
        /\ \A i \in 1..(Len(p) - 1) : EdgesBetween(p[i], p[i + 1]) # {}}

RECURSIVE WalkWeight(_, _)
WalkWeight(p, i) ==
    IF i >= Len(p) THEN 0 ELSE LeastWeight(p[i], p[i + 1]) + WalkWeight(p, i + 1)

\* C20: _dijkstra returns None exactly when no walk leads from the start to
\* the goal; otherwise its nodes are the vertices of a walk from the start
\* to the goal along edges of the graph, its length is the sum of the
\* weights along that walk, and no walk from the start to the goal is
\* shorter.
C20_DijkstraShortestPath ==
    DijkstraRan =>
        /\ ret = RetNone <=> GraphWalks = {}
        /\ ret # RetNone =>
               /\ \E p \in GraphWalks :
                      /\ ret.nodes = [i \in DOMAIN p |-> input.vertices[p[i]]]
                      /\ ret.length = WalkWeight(p, 1)
               /\ \A q \in GraphWalks : ret.length <= WalkWeight(q, 1)

\* The goal is reached over two other vertices, which is shorter than the
\* direct edge.
C20_Witness ==
    /\ DijkstraRan
    /\ ret # RetNone
    /\ Len(ret.nodes) = 4
    /\ EdgesBetween(input.start_idx, input.goal_idx) # {}
    /\ ret.length < LeastWeight(input.start_idx, input.goal_idx)

\* The goal cannot be reached although the start has edges.
C20_WitnessUnreachable ==
    /\ DijkstraRan
    /\ ret = RetNone
    /\ input.graph[input.start_idx] # <<>>

(***************************************************************************)
(* The visibility graph built by _visibility_graph_path.                   *)
(***************************************************************************)
GraphBuilt == IsPathCall /\ visibility_graph # NoGraph

\* The neighbours listed for vertex i, and the weights listed for i -> j.
GraphNeighbours(i) ==
    {visibility_graph.graph[i][k][1] : k \in DOMAIN visibility_graph.graph[i]}

GraphWeights(i, j) ==
    {visibility_graph.graph[i][k][2] :
        k \in {m \in DOMAIN visibility_graph.graph[i] : visibility_graph.graph[i][m][1] = j}}

\* Start and goal lead the vertex list, adjacency is symmetric with equal
\* weights, the weight is the Euclidean distance, no vertex is its own
\* neighbour and no neighbour is listed twice.
GraphWellFormed ==
    /\ Len(visibility_graph.vertices) >= 2
    /\ visibility_graph.vertices[1] = PathStart
    /\ visibility_graph.vertices[2] = PathGoal
    /\ DOMAIN visibility_graph.graph = DOMAIN visibility_graph.vertices
    /\ \A i \in DOMAIN visibility_graph.vertices :
          /\ i \notin GraphNeighbours(i)
          /\ Cardinality(GraphNeighbours(i)) = Len(visibility_graph.graph[i])
          /\ \A j \in GraphNeighbours(i) :
                /\ i \in GraphNeighbours(j)
                /\ GraphWeights(i, j) = GraphWeights(j, i)
                /\ GraphWeights(i, j) =
                       {get_distance(visibility_graph.vertices[i],
                                     visibility_graph.vertices[j])}

\* C21: in the graph built by _build_visibility_graph vertex 0 is the start
\* and vertex 1 the goal, adjacency is symmetric with equal weights and
\* without self-loops, and two distinct vertices are joined by an edge
\* weighted by their Euclidean distance exactly when the segment between
\* them crosses no obstacle of the full obstacle list.
C21_EdgesAreClearLines ==
    GraphBuilt =>
        /\ GraphWellFormed
        /\ \A i \in DOMAIN visibility_graph.vertices :
              \A j \in DOMAIN visibility_graph.vertices \ {i} :
                  j \in GraphNeighbours(i)
                      <=> ~ _path_crosses_obstacle(visibility_graph.vertices[i],
                                                   visibility_graph.vertices[j],
                                                   input.obstacles)

\* The pad [7,8]x[5,6] lies across the line from the start (4,0) to the goal
\* (10,8), and the graph joins start and goal all the same.
C21_Witness ==
    /\ GraphBuilt
    /\ input.obstacles = <<SmallPad>>
    /\ PathStart = Pt(4, 0) /\ PathGoal = Pt(10, 8)
    /\ _path_crosses_obstacle(PathStart, PathGoal, input.obstacles)
    /\ 2 \in GraphNeighbours(1)
    /\ 1 \in GraphNeighbours(2)

\* What does hold: the graph is well formed, and its edges are the vertex
\* pairs whose segment crosses none of the obstacles the spatial grid
\* returns for that segment.
C21_EdgesClearOfNearbyObstacles ==
    GraphBuilt =>
        /\ GraphWellFormed
        /\ \A i \in DOMAIN visibility_graph.vertices :
              \A j \in DOMAIN visibility_graph.vertices \ {i} :
                  j \in GraphNeighbours(i)
                      <=> ~ _path_crosses_obstacle_fast(
                                visibility_graph.vertices[Min2(i, j)],
                                visibility_graph.vertices[Max2(i, j)],
                                input.obstacles,
                                get_obstacles_near_line(spatial_index,
                                    visibility_graph.vertices[Min2(i, j)],
                                    visibility_graph.vertices[Max2(i, j)]))

(***************************************************************************)
(* The vertices of the visibility graph.                                   *)
(***************************************************************************)
VisibilityBuilt == call.op = "_build_visibility_graph"

MaxTotalVertices == 150

\* The corners offered by the obstacles, in the order they are collected.
CandidateCorners ==
    Flatten([i \in DOMAIN input.obstacles |->
                _get_key_vertices(input.obstacles[i].polygon, 3, input.vector_order)])

\* The corners among the vertices: all but start and goal.
KeptCorners == SubSeq(ret.vertices, 3, Len(ret.vertices))

\* kept is every stride-th element of all, from the first on.
IsStrided(kept, all, stride) ==
    /\ 1 + (Len(kept) - 1) * stride <= Len(all)
    /\ \A k \in DOMAIN kept : kept[k] = all[1 + (k - 1) * stride]

\* C22: the vertex list built by _build_visibility_graph has at most 150
\* entries: start, goal and at most 148 corners; when the obstacles offer
\* more than 148 corners, the corners kept are taken at even steps of two or
\* more across the candidate list, not from its head only.
C22_VerticesCappedAndSampled ==
    VisibilityBuilt =>
        /\ Len(ret.vertices) <= MaxTotalVertices
        /\ ret.vertices[1] = input.start /\ ret.vertices[2] = input.goal
        /\ Len(CandidateCorners) <= MaxTotalVertices - 2
               => KeptCorners = CandidateCorners
        /\ Len(CandidateCorners) > MaxTotalVertices - 2
               => \E stride \in 2..Len(CandidateCorners) :
                      IsStrided(KeptCorners, CandidateCorners, stride)

\* 64 pads offer 192 distinct corners; the 148 kept are the first 148, the
\* corners of the last 14 pads are left out.
C22_Witness ==
    /\ VisibilityBuilt
    /\ Len(input.obstacles) = 64
    /\ Len(CandidateCorners) = 192
    /\ Cardinality(Range(CandidateCorners)) = 192
    /\ KeptCorners = SubSeq(CandidateCorners, 1, 148)

\* What does hold: at most 150 vertices, led by start and goal; the corners
\* kept are every step-th candidate, with step the whole quotient of the
\* number of candidates by 148, cut off after 148: the head of the list up
\* to 295 candidates, every second candidate from 296 on.
C22_VerticesCapped ==
    VisibilityBuilt =>
        /\ Len(ret.vertices) <= MaxTotalVertices
        /\ ret.vertices[1] = input.start /\ ret.vertices[2] = input.goal
        /\ Len(KeptCorners) = Min2(Len(CandidateCorners), MaxTotalVertices - 2)
        /\ IsStrided(KeptCorners, CandidateCorners,
                     Max2(1, Len(CandidateCorners) \div (MaxTotalVertices - 2)))

\* 100 pads offer 300 corners, of which every second one is kept.
C22_WitnessSampled ==
    /\ VisibilityBuilt
    /\ Len(CandidateCorners) = 300
    /\ Len(ret.vertices) = MaxTotalVertices
    /\ IsStrided(KeptCorners, CandidateCorners, 2)

(***************************************************************************)
(* Key vertices of an outline.                                             *)
(***************************************************************************)
KeyVerticesRan == call.op = "_get_key_vertices"

OutlineCorners == {Corner(call.polygon, i) : i \in DOMAIN call.polygon}

KeptCurrs == Range(ret.vertices)

\* Corner a turns the outline further from a straight line than corner b
\* does: the angle between its two edges is the smaller one.
Sharper(a, b) == AngleLess(a, b)

\* C23: _get_key_vertices returns at most K = 3 vertices of the outline,
\* and they are its sharpest corners: no corner left out turns the outline
\* further from a straight line than a corner that was kept.
C23_KeepsSharpestCorners ==
    KeyVerticesRan =>
        /\ Len(ret.vertices) <= input.max_vertices_per_polygon
        /\ KeptCurrs \subseteq Range(call.polygon)
        /\ \A kept \in OutlineCorners : \A left \in OutlineCorners :
              (kept.curr \in KeptCurrs /\ left.curr \notin KeptCurrs)
                  => ~ Sharper(left, kept)

\* The outline (0,0), (2,0), (4,0), (4,4), (0,4) runs straight through
\* (2,0); that vertex is returned first, and two of the four right-angled
\* corners are left out.
C23_Witness ==
    /\ KeyVerticesRan
    /\ call.polygon = <<Pt(0, 0), Pt(2, 0), Pt(4, 0), Pt(4, 4), Pt(0, 4)>>
    /\ Len(ret.vertices) = 3
    /\ ret.vertices[1] = Pt(2, 0)
    /\ Cardinality({Pt(0, 0), Pt(4, 0), Pt(4, 4), Pt(0, 4)} \ KeptCurrs) = 2

\* What does hold: at most K vertices are returned, each a corner whose
\* edges enclose more than 30 degrees, and no such corner left out encloses
\* a wider angle than one that was kept: the flattest corners come first,
\* and a spike of 30 degrees or less is never returned.
C23_KeepsWidestAngles ==
    KeyVerticesRan =>
        /\ Len(ret.vertices) <= input.max_vertices_per_polygon
        /\ \A c \in OutlineCorners :
              c.curr \in KeptCurrs => SignificantCorner(c)
        /\ Len(ret.vertices) =
               Min2(input.max_vertices_per_polygon,
                    Cardinality({c \in OutlineCorners : SignificantCorner(c)}))
        /\ \A kept \in OutlineCorners : \A left \in OutlineCorners :
              (/\ kept.curr \in KeptCurrs
               /\ left.curr \notin KeptCurrs
               /\ SignificantCorner(left))
                  => ~ AngleLess(kept, left)

\* The spike of the triangle (0,0), (8,1), (8,0) at (0,0), the sharpest of
\* its corners, is not returned.
C23_WitnessSpike ==
    /\ KeyVerticesRan
    /\ call.polygon = <<Pt(0, 0), Pt(8, 1), Pt(8, 0)>>
    /\ Len(ret.vertices) = 2
    /\ Pt(0, 0) \notin KeptCurrs

(***************************************************************************)
(* Which path finder _visibility_graph_path runs.  The fast A* builds a    *)
(* spatial index of 10 mm cells, the visibility graph one of 5 mm cells.   *)
(***************************************************************************)
DirectBlocked == _path_crosses_obstacle(PathStart, PathGoal, input.obstacles)

FastAStarEntered == spatial_index # NoIndex /\ spatial_index.cell_size = 10

GraphAndDijkstraUsed ==
    /\ spatial_index # NoIndex /\ spatial_index.cell_size = 5
    /\ visibility_graph # NoGraph
    /\ ret = _dijkstra(visibility_graph.graph, 1, 2, visibility_graph.vertices)

\* C24: _astar_surface_path_fast is entered exactly when the direct line
\* from start to goal is blocked and there are more than 100 obstacles; with
\* 100 obstacles or fewer and a blocked line, the visibility graph and
\* Dijkstra give the result, and the fast A* is not run.
C24_FastAStarOnlyAboveThreshold ==
    IsPathCall =>
        /\ FastAStarEntered <=> (DirectBlocked /\ Len(input.obstacles) > GraphThreshold)
        /\ Len(input.obstacles) <= GraphThreshold =>
              /\ ~ FastAStarEntered
              /\ DirectBlocked => GraphAndDijkstraUsed
        /\ FastAStarEntered => visibility_graph = NoGraph

\* Exactly 100 obstacles and a blocked line: the graph of 150 vertices is
\* built and the path leads round the wall.
C24_Witness ==
    /\ IsPathCall
    /\ Len(input.obstacles) = GraphThreshold
    /\ DirectBlocked
    /\ GraphAndDijkstraUsed
    /\ Len(visibility_graph.vertices) = 150
    /\ ret # RetNone /\ Len(ret.nodes) = 4

\* 101 obstacles and a blocked line: the fast A* runs.
C24_WitnessFallback ==
    /\ IsPathCall
    /\ Len(input.obstacles) = GraphThreshold + 1
    /\ DirectBlocked
    /\ FastAStarEntered
    /\ visibility_graph = NoGraph

(***************************************************************************)
(* The neighbours of a node of the fast A*.                                *)
(***************************************************************************)
NeighborsRan == call.op = "_get_fast_neighbors"

\* The line from the current node to point p crosses none of the obstacles
\* the spatial grid returns for it.
ClearOfNearby(p) ==
    ~ _path_crosses_obstacle_fast(call.current, p, input.obstacles,
                                  get_obstacles_near_line(spatial_index, call.current, p))

\* C25: _get_fast_neighbors returns at most max_neighbors = 8 points, no
\* point twice, each reached from the current node by a line that crosses
\* none of the obstacles the spatial grid returns for that line; when the
\* goal is visible in that sense, the result is the goal alone.
C25_NeighborsCappedAndDistinct ==
    NeighborsRan =>
        /\ Len(ret.neighbors) <= call.max_neighbors
        /\ Cardinality(Range(ret.neighbors)) = Len(ret.neighbors)
        /\ \A k \in DOMAIN ret.neighbors : ClearOfNearby(ret.neighbors[k])
        /\ ClearOfNearby(call.goal) => ret.neighbors = <<call.goal>>

\* The pad [9,11]x[5,8] lies on the end of the area [9,11]x[2,8]; from
\* (0,9) towards (20,5) their common corner (11,8) is returned once for
\* each of the two obstacles.
C25_Witness ==
    /\ NeighborsRan
    /\ input.obstacles = <<Wall, RectObstacle(9, 5, 11, 8)>>
    /\ call.current = Pt(0, 9) /\ call.goal = Pt(20, 5)
    /\ ~ ClearOfNearby(call.goal)
    /\ ret.neighbors = <<Pt(11, 8), Pt(11, 8)>>

\* What does hold: the cap, the clear lines, and the goal alone when it is
\* visible.
C25_NeighborsCapped ==
    NeighborsRan =>
        /\ Len(ret.neighbors) <= call.max_neighbors
        /\ \A k \in DOMAIN ret.neighbors : ClearOfNearby(ret.neighbors[k])
        /\ ClearOfNearby(call.goal) => ret.neighbors = <<call.goal>>

\* More than eight corners are visible and eight are returned.
C25_WitnessCapped ==
    /\ NeighborsRan
    /\ ~ ClearOfNearby(call.goal)
    /\ Len(ret.neighbors) = call.max_neighbors
    /\ Len(input.obstacles) > call.max_neighbors

(***************************************************************************)
(* The grid of the spatial index.  A point belongs to the cell its         *)
(* coordinates divide down to; a bounding box overlaps the cells its       *)
(* points belong to.                                                       *)
(***************************************************************************)
IndexBuilt == spatial_index # NoIndex

CellOfPoint(x, y) == <<x \div spatial_index.cell_size, y \div spatial_index.cell_size>>

OverlappedCells(bbox) ==
    {CellOfPoint(x, y) : x \in bbox.left..bbox.right, y \in bbox.top..bbox.bottom}

\* C26: in the grid of an ObstacleSpatialIndex every obstacle is listed in
\* every cell its bounding box overlaps, no cell is mapped to an empty list,
\* and no obstacle is listed in a cell its bounding box does not overlap.
C26_GridMatchesBoundingBoxes ==
    IndexBuilt =>
        /\ \A i \in DOMAIN spatial_index.obstacles :
              \A c \in OverlappedCells(spatial_index.obstacles[i].bbox) :
                  c \in DOMAIN spatial_index.grid /\ i \in spatial_index.grid[c]
        /\ \A c \in DOMAIN spatial_index.grid :
              /\ spatial_index.grid[c] # {}
              /\ \A i \in spatial_index.grid[c] :
                    /\ i \in DOMAIN spatial_index.obstacles
                    /\ c \in OverlappedCells(spatial_index.obstacles[i].bbox)

\* The box [-1,0]x[3,9] with cells of 5 mm: it reaches from cell column -1
\* to the first points of column 0 and over rows 0 and 1.
C26_Witness ==
    /\ IndexBuilt
    /\ spatial_index.cell_size = 5
    /\ spatial_index.obstacles = <<GridBoxes[4], GridBoxes[2]>>
    /\ \A c \in {<<0 - 1, 0>>, <<0 - 1, 1>>, <<0, 0>>, <<0, 1>>} :
           c \in DOMAIN spatial_index.grid /\ 1 \in spatial_index.grid[c]
    /\ spatial_index.grid[<<0, 0>>] = {1, 2}
    /\ DOMAIN spatial_index.grid =
           {<<0 - 1, 0>>, <<0 - 1, 1>>, <<0, 0>>, <<0, 1>>}

(***************************************************************************)
(* The clearance of two feature lists against the exact distance of every  *)
(* pad pair.                                                               *)
(***************************************************************************)
\* The polygon distance of the pads of features fa and fb, squared.
ExactPadDistance(fa, fb) ==
    _calculate_polygon_distance(_get_pad_polygon(fa.pad, fa.pad.layer),
                                _get_pad_polygon(fb.pad, fb.pad.layer))

ComparedFeatures ==
    IsCalculateClearanceCall /\ call.features_a # <<>> /\ call.features_b # <<>>

\* No pad pair is closer than the pair (i, j).
IsClosestPair(i, j) ==
    \A m \in DOMAIN call.features_a : \A n \in DOMAIN call.features_b :
        RatLe(ExactPadDistance(call.features_a[i], call.features_b[j]),
              ExactPadDistance(call.features_a[m], call.features_b[n]))

Reversed(s) == [i \in DOMAIN s |-> s[Len(s) + 1 - i]]

\* C27: the centre-distance prefilter of _calculate_clearance does not
\* change the result: the distance returned is the minimum of the exact
\* polygon distance over all pad pairs, the pads reported are such a closest
\* pair, and the distance is the same when the pads are listed in the
\* opposite order.
C27_PrefilterKeepsMinimum ==
    ComparedFeatures =>
        /\ ret # RetNone
        /\ \E i \in DOMAIN call.features_a : \E j \in DOMAIN call.features_b :
              /\ IsClosestPair(i, j)
              /\ ret.distance_sq =
                     ExactPadDistance(call.features_a[i], call.features_b[j])
              /\ ret.point1 = call.features_a[i].pos
              /\ ret.point2 = call.features_b[j].pos
        /\ ret.distance_sq =
               _calculate_clearance(Reversed(call.features_a),
                                    Reversed(call.features_b)).distance_sq

\* Pads of 10x10 mm: A at (0,0), B0 at (25,0), 15 mm from A, and B1 at
\* (20,20), whose corner is 14.14 mm from A's.  With B0 listed first, B1 is
\* rejected by the prefilter and 15 mm is returned.
C27_Witness ==
    /\ IsCalculateClearanceCall
    /\ call.features_a = <<Feature(Pad(Pt(0, 0), Pt(10, 10), "F_Cu"), "L", 230, FALSE)>>
    /\ call.features_b = <<Feature(Pad(Pt(25, 0), Pt(10, 10), "F_Cu"), "5V", 5, FALSE),
                           Feature(Pad(Pt(20, 20), Pt(10, 10), "F_Cu"), "5V", 5, FALSE)>>
    /\ FastReject(call.features_a[1], call.features_b[2], RatInt(225))
    /\ ExactPadDistance(call.features_a[1], call.features_b[2]) = RatInt(200)
    /\ ret.distance_sq = RatInt(225)
    /\ ret.point2 = Pt(25, 0)

\* What does hold: the distance returned is the exact polygon distance of
\* the pad pair reported.
C27_ReportedPairDistance ==
    ComparedFeatures =>
        /\ ret # RetNone
        /\ \E i \in DOMAIN call.features_a : \E j \in DOMAIN call.features_b :
              /\ ret.distance_sq =
                     ExactPadDistance(call.features_a[i], call.features_b[j])
              /\ ret.point1 = call.features_a[i].pos
              /\ ret.point2 = call.features_b[j].pos

(***************************************************************************)
(* The configuration across the lookups of a check.                        *)
(***************************************************************************)
ConfigurationKept ==
    /\ config' = config
    /\ standard_params' = standard_params
    /\ isolation_requirements' = isolation_requirements

\* C28: the configuration is read-only during a check: no required-clearance
\* or required-creepage lookup changes a configured table (the order of the
\* entries of a creepage sub-table included), the isolation requirements or
\* the correction factors.
C28_ConfigurationReadOnly == [][ConfigurationKept]_vars

\* A creepage lookup has left the sub-table, configured as (300 V, 2.5 mm),
\* (50 V, 1.2 mm), in the order (50 V, 1.2 mm), (300 V, 2.5 mm).
C28_Witness ==
    /\ IsCreepageLookup
    /\ LookupBaseConfig.iec60664_creepage_table[1].voltages
           = <<<<300, 250>>, <<50, 120>>>>
    /\ config.iec60664_creepage_table[1].voltages = <<<<50, 120>>, <<300, 250>>>>

\* A step changes nothing but the order of the entries of creepage
\* sub-tables.
OnlyEntryOrderChanges ==
    /\ standard_params' = standard_params
    /\ isolation_requirements' = isolation_requirements
    /\ DOMAIN config' = DOMAIN config
    /\ \A k \in DOMAIN config \ {"iec60664_creepage_table"} : config'[k] = config[k]
    /\ Len(config'.iec60664_creepage_table) = Len(config.iec60664_creepage_table)
    /\ \A i \in DOMAIN config.iec60664_creepage_table :
          /\ config'.iec60664_creepage_table[i].material
                 = config.iec60664_creepage_table[i].material
          /\ config'.iec60664_creepage_table[i].pollution
                 = config.iec60664_creepage_table[i].pollution
          /\ Range(config'.iec60664_creepage_table[i].voltages)
                 = Range(config.iec60664_creepage_table[i].voltages)

\* What does hold: the lookups leave the clearance table, the isolation
\* requirements, the correction factors and the entries of every creepage
\* sub-table as they are; only the order of those entries may change.
C28_OnlyOrderOfCreepageEntries == [][OnlyEntryOrderChanges]_vars

\* The voltage domains of the run: those the board's nets were assigned to.
CheckedDomains == {domain_map[n].domain_name : n \in DOMAIN domain_map}

\* How often the pair of a and b, in either order, was examined.
TimesExamined(a, b) ==
    Cardinality({i \in DOMAIN call.pairs : call.pairs[i] \in {<<a, b>>, <<b, a>>}})

\* C29: in a check, every unordered pair of distinct voltage domains is
\* examined exactly once and nothing else is examined, creepage is attempted
\* on each copper layer at most once per pair, the violation numbers handed
\* to the group factory are 1, 2, 3, ... in order, and the returned
\* violation_count equals clearance_violations + creepage_violations and
\* the number of markers drawn.
C29_PairsOnceAndCountsAgree ==
    CheckRan =>
        /\ \A a \in CheckedDomains : \A b \in CheckedDomains \ {a} :
               TimesExamined(a, b) = 1
        /\ \A i \in DOMAIN call.pairs :
               /\ call.pairs[i][1] \in CheckedDomains
               /\ call.pairs[i][2] \in CheckedDomains \ {call.pairs[i][1]}
        /\ \A i \in DOMAIN call.attempts : \A j \in DOMAIN call.attempts :
               call.attempts[i] = call.attempts[j] => i = j
        /\ \A i \in DOMAIN call.attempts :
               IsSubstring(<<".", "C", "u">>, call.attempts[i][3])
        /\ \A k \in DOMAIN markers : markers[k].number = k
        /\ ret.violation_count = violation_count
        /\ ret.violation_count = clearance_violations + creepage_violations
        /\ ret.violation_count = Len(markers)

\* A run over three domains, so three pairs, with creepage attempted on two
\* layers and a clearance and a creepage violation numbered 1 and 2.
C29_Witness ==
    /\ CheckRan
    /\ Cardinality(CheckedDomains) = 3
    /\ Len(call.pairs) = 3
    /\ \E i \in DOMAIN call.attempts : \E j \in DOMAIN call.attempts :
           /\ call.attempts[i][1] = call.attempts[j][1]
           /\ call.attempts[i][2] = call.attempts[j][2]
           /\ call.attempts[i][3] # call.attempts[j][3]
    /\ ClearanceMarkers # {}
    /\ CreepageMarkers # {}
    /\ ret.violation_count = Len(markers)

\* The walk of the queried segment, given as many iterations as the two end
\* cells are apart in x plus in y.
QueriedWalk ==
    LET start == LineCellsStart(spatial_index, call.p1, call.p2)
    IN  LineCellsTrace(start, <<>>, start.dx + start.dy)

\* Cell b is one of the eight cells around cell a.
IsEightNeighbour(a, b) ==
    /\ a # b
    /\ Abs(a[1] - b[1]) <= 1
    /\ Abs(a[2] - b[2]) <= 1

\* The cell lies in the rectangle of cells spanned by cells a and b.
InCellRectangle(cell, a, b) ==
    /\ Min2(a[1], b[1]) <= cell[1] /\ cell[1] <= Max2(a[1], b[1])
    /\ Min2(a[2], b[2]) <= cell[2] /\ cell[2] <= Max2(a[2], b[2])

WalkIsSound(walk, first, last) ==
    /\ walk.done
    /\ walk.cells[1] = first
    /\ walk.cells[Len(walk.cells)] = last
    /\ \A i \in 1..(Len(walk.cells) - 1) :
           IsEightNeighbour(walk.cells[i], walk.cells[i + 1])
    /\ \A i \in DOMAIN walk.cells : InCellRectangle(walk.cells[i], first, last)

\* C30: for every pair of end points the cell walk of _get_line_cells ends
\* (within as many steps as the end cells are apart in x plus in y), the
\* cells visited include the start cell and the end cell, every step goes
\* to one of the eight neighbours of the previous cell, and no cell lies
\* outside the rectangle of the two end cells; the obstacles returned are
\* those listed in the cells of that walk.
C30_LineWalkEndsInsideRectangle ==
    IsNearLineCall =>
        /\ WalkIsSound(QueriedWalk, CellOfPoint(call.p1.x, call.p1.y),
                       CellOfPoint(call.p2.x, call.p2.y))
        /\ Range(QueriedWalk.cells) = _get_line_cells(spatial_index, call.p1, call.p2)
        /\ ret.indices =
               UNION {spatial_index.grid[cell] :
                        cell \in Range(QueriedWalk.cells) \cap DOMAIN spatial_index.grid}

\* A walk up and to the left through negative cells, with straight and
\* diagonal steps.
C30_Witness ==
    /\ IsNearLineCall
    /\ spatial_index.cell_size = 3
    /\ call.p1 = Pt(10, 10)
    /\ call.p2 = Pt(0 - 1, 4)
    /\ QueriedWalk.done
    /\ Len(QueriedWalk.cells) = 5

\* The walk of a segment inside one cell: the cell alone.
C30_WitnessSameCell ==
    /\ IsNearLineCall
    /\ call.p1 = call.p2
    /\ QueriedWalk = [cells |-> <<CellOfPoint(call.p1.x, call.p1.y)>>, done |-> TRUE]

====
